---- MODULE Spec2Model ----
(***************************************************************************)
(* Timetable generation engine (backend/timetable): task decomposition,    *)
(* urgency ranking, greedy constrained allocation, spaced repetition and   *)
(* the completeness check of TimetableScheduler.generate(), followed by    *)
(* the adaptivity hooks that work on a generated timetable.                *)
(*                                                                         *)
(* Representation.                                                         *)
(*   dates      integers (day numbers); day 0 is a Monday, so that         *)
(*              date.weekday() is d % 7                                    *)
(*   times      minutes since midnight (hour * 60 + minute)                *)
(*   hours      hundredths of an hour (150 is 1.5 h)                       *)
(*   scores     difficulty / confidence in tenths (7 is 0.7)               *)
(*   percentage buffer_percentage in hundredths (15 is 0.15)               *)
(*   Optional   <<>> is None, <<x>> is a present value x                   *)
(*   task ids   [kind, n, sfx]: f"{kind}_{n:04d}" followed by the          *)
(*              suffixes of sfx ("reschedule", "confidence_revision")      *)
(* Every scheduler state variable is a function of the scheduler instance. *)
(* Arithmetic on these scaled integers is exact; the inputs below are      *)
(* values on which the source's float arithmetic gives the same results.   *)
(***************************************************************************)
EXTENDS Integers, Sequences, FiniteSets, TLC

VARIABLES
    current_date,   \* self.current_date
    events,         \* self.events        (normalized FixedEvent list)
    availability,   \* self.availability  (DailyAvailability)
    preferences,    \* self.preferences   (StudyPreferences)
    topics,         \* self.topics        (normalized LearningTopic list)
    task_counter,   \* self.decomposer._task_counter
    tasks,          \* self.tasks
    warnings,       \* self.warnings
    schedule,       \* self.schedule      (date -> DaySchedule)
    end_date,       \* generate(): end_date
    capacity_map,   \* generate(): capacity_map (date -> DayCapacity)
    ranked,         \* _schedule_tasks(): ranked_tasks, as indexes into tasks
    rank_pos,       \* _schedule_tasks(): number of ranked tasks attempted
    revision_queue, \* _add_spaced_repetition(): candidates still to try
    metadata,       \* TimetableOutput.metadata of the last generate()
    last_call,      \* the last adaptivity hook call and what it returned
    calls,          \* number of calls made after the first generate()
    pc              \* position of the instance in generate()

vars == <<current_date, events, availability, preferences, topics,
          task_counter, tasks, warnings, schedule, end_date, capacity_map,
          ranked, rank_pos, revision_queue, metadata, last_call, calls, pc>>

inputs == <<current_date, events, availability, preferences, topics>>

(***************************************************************************)
(* Bounds of the model.                                                    *)
(***************************************************************************)
\* events and topics of a scheduler whose generate() is followed step by step
MaxEvents == 2

MaxTopics == 1

\* events and topics of a scheduler when hooks are called on its timetable
\* or when a second scheduler is built from the same inputs
MaxEventsSmall == 1

MaxTopicsSmall == 1

\* adaptivity hook calls on one timetable
MaxCalls == 1

\* effort of the event given to decompose_event, in quarters of an hour
MaxEffortQuarters == 40

\* handle_missed_session calls on one timetable
MaxMissedCalls == 2

\* latest current_date of the one-exam scenario
MaxStartDay == 7

\* calls of handle_missed_session and of the status setters on one timetable
MaxLifecycleCalls == 2

(***************************************************************************)
(* Generic helpers.                                                        *)
(***************************************************************************)
None == <<>>

Some(x) == <<x>>

Min(a, b) == IF a <= b THEN a ELSE b

Max(a, b) == IF a >= b THEN a ELSE b

clamp(value, min_val, max_val) == Max(min_val, Min(max_val, value))

SetMin(S) == CHOOSE x \in S : \A y \in S : x <= y

SetMax(S) == CHOOSE x \in S : \A y \in S : x >= y

RECURSIVE SumSeq(_)
SumSeq(s) == IF s = <<>> THEN 0 ELSE Head(s) + SumSeq(Tail(s))

RECURSIVE FlattenSeq(_)
FlattenSeq(ss) == IF ss = <<>> THEN <<>> ELSE Head(ss) \o FlattenSeq(Tail(ss))

Range(s) == {s[k] : k \in DOMAIN s}

SeqsUpTo(S, n) == UNION {[1..k -> S] : k \in 0..n}

(***************************************************************************)
(* DateTimeUtils.                                                          *)
(***************************************************************************)
hours_to_minutes(hours) == (hours * 60) \div 100

add_days(base_date, days) == base_date + days

days_between(start_date, end_d) == end_d - start_date

date_range(start_date, end_d) == start_date..end_d

weekday(d) == d % 7

add_minutes_to_time(base_time, minutes) ==
    LET total_minutes == base_time + minutes
    IN  IF total_minutes >= 24 * 60 THEN 23 * 60 + 59
        ELSE IF total_minutes < 0 THEN 0
        ELSE total_minutes

REVISION_INTERVALS == <<1, 3, 7>>

get_spaced_repetition_dates(initial_date, end_d, intervals) ==
    SelectSeq([k \in DOMAIN intervals |-> initial_date + intervals[k]],
              LAMBDA rep_date : rep_date <= end_d)

(***************************************************************************)
(* models.py: DailyAvailability, StudyTask, DaySchedule.                   *)
(***************************************************************************)
get_hours_for_date(avail, target_date) ==
    IF target_date \in avail.excluded_dates THEN 0
    ELSE IF weekday(target_date) < 5 THEN avail.weekday_hours
    ELSE avail.weekend_hours

TaskId(kind, n) == [kind |-> kind, n |-> n, sfx |-> <<>>]

WithSuffix(task_id, suffix) == [task_id EXCEPT !.sfx = Append(@, suffix)]

\* StudyTask(...) with the dataclass defaults of the fields not passed
StudyTask(task_id, subject, topic, deadline, required_minutes, priority, difficulty_score, confidence_score, task_type) ==
    [task_id            |-> task_id,
     subject            |-> subject,
     topic              |-> topic,
     deadline           |-> deadline,
     required_minutes   |-> required_minutes,
     priority           |-> priority,
     difficulty_score   |-> difficulty_score,
     confidence_score   |-> confidence_score,
     status             |-> "pending",
     task_type          |-> task_type,
     parent_task_id     |-> None,
     source_event_id    |-> None,
     source_topic_id    |-> None,
     scheduled_date     |-> None,
     scheduled_slot     |-> None,
     revision_iteration |-> 0]

mark_scheduled_without_date(task, scheduled_date, slot) ==
    [task EXCEPT !.status = "scheduled", !.scheduled_slot = Some(slot)]

\* the slot index taken after the append as the new length, not the last index
mark_scheduled_by_length(task, scheduled_date, slot) ==
    [task EXCEPT !.status = "scheduled",
                 !.scheduled_date = Some(scheduled_date),
                 !.scheduled_slot = Some(slot + 1)]

mark_scheduled(task, scheduled_date, slot) ==
    [task EXCEPT !.status = "scheduled",
                 !.scheduled_date = Some(scheduled_date),
                 !.scheduled_slot = Some(slot)]

mark_completed(task) == [task EXCEPT !.status = "completed"]

mark_missed(task) == [task EXCEPT !.status = "missed"]

clone_keeping_priority(task, new_task_id) ==
    [StudyTask(new_task_id, task.subject, task.topic, task.deadline,
               task.required_minutes, task.priority,
               task.difficulty_score, task.confidence_score, task.task_type)
     EXCEPT !.parent_task_id = Some(task.task_id),
            !.source_event_id = task.source_event_id,
            !.source_topic_id = task.source_topic_id]

clone_for_reschedule(task, new_task_id) ==
    [StudyTask(new_task_id, task.subject, task.topic, task.deadline,
               task.required_minutes, Min(10, task.priority + 1),
               task.difficulty_score, task.confidence_score, task.task_type)
     EXCEPT !.parent_task_id = Some(task.task_id),
            !.source_event_id = task.source_event_id,
            !.source_topic_id = task.source_topic_id]

TimeSlot(start_time, end_time, task) ==
    [start_time |-> start_time,
     end_time   |-> end_time,
     subject    |-> task.subject,
     topic      |-> task.topic,
     task_id    |-> task.task_id,
     task_type  |-> task.task_type,
     is_break   |-> FALSE]

\* capacity_used is the float used / total, kept as the pair (num, den)
EmptyDaySchedule ==
    [slots               |-> <<>>,
     total_study_minutes |-> 0,
     subjects_covered    |-> {},
     capacity_used       |-> [num |-> 0, den |-> 1]]

\* a slot list that takes the new slot at the front
add_slot_in_front(day, slot) ==
    IF slot.is_break
    THEN [day EXCEPT !.slots = <<slot>> \o @]
    ELSE [day EXCEPT !.slots = <<slot>> \o @,
                     !.total_study_minutes = @ + (slot.end_time - slot.start_time),
                     !.subjects_covered = @ \cup {slot.subject}]

add_slot(day, slot) ==
    IF slot.is_break
    THEN [day EXCEPT !.slots = Append(@, slot)]
    ELSE [day EXCEPT !.slots = Append(@, slot),
                     !.total_study_minutes = @ + (slot.end_time - slot.start_time),
                     !.subjects_covered = @ \cup {slot.subject}]

(***************************************************************************)
(* scheduler.py: TaskDecomposer.                                           *)
(***************************************************************************)
CeilDiv(total, len) == (total + len - 1) \div len

EventTaskType(event) ==
    IF event.event_type = "exam" THEN "exam_prep" ELSE "initial_learning"

EventTopic(event) ==
    IF event.topic # None THEN event.topic[1]
    ELSE event.event_type \o " preparation"

\* minutes of session i (0-based) when total_minutes are spread over
\* num_sessions sessions, the remainder going to the first sessions
SessionMinutesNoRemainder(total_minutes, num_sessions, i) ==
    total_minutes \div num_sessions

SessionMinutes(total_minutes, num_sessions, i) ==
    (total_minutes \div num_sessions)
        + (IF i < total_minutes % num_sessions THEN 1 ELSE 0)

EventNumSessionsFloor(total_minutes, session_length) ==
    Max(1, total_minutes \div session_length)

EventNumSessions(total_minutes, session_length) ==
    Max(1, CeilDiv(total_minutes, session_length))

\* decompose_event: the tasks take the ids counter+1 .. counter+n
decompose_event(event, session_length, counter) ==
    LET total_minutes == hours_to_minutes(event.estimated_effort_hours)
        num_sessions  == EventNumSessions(total_minutes, session_length)
    IN  [k \in 1..num_sessions |->
            [StudyTask(TaskId("event", counter + k),
                       event.subject,
                       EventTopic(event),
                       event.target_date,
                       Min(SessionMinutes(total_minutes, num_sessions, k - 1),
                           session_length),
                       event.priority_level,
                       5, 5,
                       EventTaskType(event))
             EXCEPT !.source_event_id = Some(event.id)]]

\* int(clamp(priority_score * 10, 1, 10)), priority_score * 10 being
\* (difficulty + (10 - confidence)) / 2 in tenths: clamp, then truncate
calculate_topic_priority(topic) ==
    LET twice == topic.difficulty_score + (10 - topic.confidence_score)
    IN  IF twice < 2 THEN 1 ELSE Min(10, twice \div 2)

\* int(base * (1 + 0.5 * difficulty) * (1 + 0.5 * (1 - confidence)))
AdjustedMinutes(topic) ==
    (hours_to_minutes(topic.estimated_hours)
        * (20 + topic.difficulty_score)
        * (20 + (10 - topic.confidence_score))) \div 400

EffectiveSessionLength(topic, session_length) ==
    IF topic.difficulty_score > 7 \/ topic.confidence_score < 3
    THEN Min(session_length, 30)
    ELSE session_length

TopicNumSessions(topic, session_length) ==
    Min(Max(1, CeilDiv(AdjustedMinutes(topic),
                       EffectiveSessionLength(topic, session_length))),
        10)

decompose_topic(topic, deadline, session_length, counter) ==
    LET adjusted_minutes == AdjustedMinutes(topic)
        num_sessions     == TopicNumSessions(topic, session_length)
    IN  [k \in 1..num_sessions |->
            [StudyTask(TaskId("topic", counter + k),
                       topic.subject,
                       topic.topic,
                       deadline,
                       Min(Max(SessionMinutes(adjusted_minutes, num_sessions, k - 1),
                               15),
                           session_length),
                       calculate_topic_priority(topic),
                       topic.difficulty_score,
                       topic.confidence_score,
                       "initial_learning")
             EXCEPT !.source_topic_id = Some(topic.id)]]

create_revision_task_same_priority(original_task, revision_date, iteration, counter) ==
    [StudyTask(TaskId("revision", counter + 1),
               original_task.subject,
               original_task.topic,
               revision_date,
               Max(15, original_task.required_minutes \div 2),
               original_task.priority,
               original_task.difficulty_score,
               Min(10, original_task.confidence_score + iteration),
               "revision")
     EXCEPT !.parent_task_id = Some(original_task.task_id),
            !.source_topic_id = original_task.source_topic_id,
            !.revision_iteration = iteration]

create_revision_task_floor_45(original_task, revision_date, iteration, counter) ==
    [StudyTask(TaskId("revision", counter + 1),
               original_task.subject,
               original_task.topic,
               revision_date,
               Max(45, original_task.required_minutes \div 2),
               Max(1, original_task.priority - 1),
               original_task.difficulty_score,
               Min(10, original_task.confidence_score + iteration),
               "revision")
     EXCEPT !.parent_task_id = Some(original_task.task_id),
            !.source_topic_id = original_task.source_topic_id,
            !.revision_iteration = iteration]

\* create_revision_task: takes the id counter+1
create_revision_task(original_task, revision_date, iteration, counter) ==
    [StudyTask(TaskId("revision", counter + 1),
               original_task.subject,
               original_task.topic,
               revision_date,
               Max(15, original_task.required_minutes \div 2),
               Max(1, original_task.priority - 1),
               original_task.difficulty_score,
               Min(10, original_task.confidence_score + iteration),
               "revision")
     EXCEPT !.parent_task_id = Some(original_task.task_id),
            !.source_topic_id = original_task.source_topic_id,
            !.revision_iteration = iteration]

(***************************************************************************)
(* scoring.py: UrgencyScorer.  Scores are fixed-point: the components in   *)
(* thousandths, the weighted total in millionths.                          *)
(***************************************************************************)
RECURSIVE IsqrtIter(_, _, _)
IsqrtIter(n, lo, hi) ==
    IF lo >= hi THEN lo
    ELSE CHOOSE root \in
             {IF mid * mid <= n THEN IsqrtIter(n, mid, hi)
              ELSE IsqrtIter(n, lo, below) :
                 mid \in {(lo + hi + 1) \div 2}, below \in {(lo + hi + 1) \div 2 - 1}} :
             TRUE

\* floor of the square root of n, for 0 <= n <= 1000000
Isqrt(n) == IsqrtIter(n, 0, 1000)

calculate_priority_component(priority) == clamp(priority, 1, 10) * 100

calculate_difficulty_component(difficulty_score) ==
    clamp(difficulty_score, 0, 10) * 100

calculate_deadline_component_far_first(days_remaining, planning_horizon_days) ==
    IF days_remaining >= planning_horizon_days THEN 100
    ELSE IF days_remaining <= 0 THEN 1000
    ELSE Max(100, 1000 - Isqrt((days_remaining * 1000000) \div planning_horizon_days))

calculate_deadline_component(days_remaining, planning_horizon_days) ==
    IF days_remaining <= 0 THEN 1000
    ELSE IF days_remaining >= planning_horizon_days THEN 100
    ELSE Max(100, 1000 - Isqrt((days_remaining * 1000000) \div planning_horizon_days))

calculate_confidence_component_direct(confidence_score) ==
    clamp(confidence_score, 0, 10) * 100

calculate_confidence_component(confidence_score) ==
    1000 - clamp(confidence_score, 0, 10) * 100

calculate_type_component(task_type) ==
    CASE task_type = "exam_prep"        -> 150
      [] task_type = "revision"         -> 80
      [] task_type = "initial_learning" -> 50
      [] task_type = "practice"         -> 20
      [] OTHER                          -> 0

calculate_score(task, cur_date, planning_horizon_days) ==
    clamp(calculate_priority_component(task.priority) * 250
            + calculate_difficulty_component(task.difficulty_score) * 150
            + calculate_deadline_component(days_between(cur_date, task.deadline),
                                           planning_horizon_days) * 350
            + calculate_confidence_component(task.confidence_score) * 150
            + calculate_type_component(task.task_type) * 100,
          0, 1000000)

RankedBeforeByScore(score_a, deadline_a, score_b, deadline_b) ==
    score_a > score_b

\* the sort key (-score, deadline) of rank_tasks: a goes strictly before b
RankedBefore(score_a, deadline_a, score_b, deadline_b) ==
    \/ score_a > score_b
    \/ score_a = score_b /\ deadline_a < deadline_b

\* list.sort is stable: x goes before the first element it strictly precedes
RECURSIVE InsertRanked(_, _, _, _)
InsertRanked(sorted, x, score, task_list) ==
    IF sorted = <<>> THEN <<x>>
    ELSE IF RankedBefore(score[x], task_list[x].deadline,
                         score[Head(sorted)], task_list[Head(sorted)].deadline)
         THEN <<x>> \o sorted
         ELSE <<Head(sorted)>> \o InsertRanked(Tail(sorted), x, score, task_list)

\* the last element inserted into the sorted rest; the sorted rest is bound
\* as a value, so that it is computed once
RECURSIVE SortRanked(_, _, _)
SortRanked(idxs, score, task_list) ==
    IF idxs = <<>> THEN <<>>
    ELSE CHOOSE result \in
             {InsertRanked(sorted, idxs[Len(idxs)], score, task_list) :
                 sorted \in {SortRanked(init, score, task_list) :
                                init \in {SubSeq(idxs, 1, Len(idxs) - 1)}}} :
             TRUE

\* rank_tasks over the tasks at the indexes idxs of task_list
rank_tasks(task_list, idxs, cur_date, planning_horizon_days) ==
    CHOOSE scored_tasks \in
        {SortRanked(idxs, score, task_list) :
            score \in {[k \in DOMAIN task_list |->
                          calculate_score(task_list[k], cur_date, planning_horizon_days)]}} :
        TRUE

(***************************************************************************)
(* scheduler.py: DayCapacity and CapacityPlanner.                          *)
(***************************************************************************)
can_fit_session_any_minutes(capacity, minutes, subject, topic, max_subjects) ==
    /\ ~(capacity.sessions_used >= capacity.max_sessions)
    /\ ~(subject \notin capacity.subjects_used
            /\ Cardinality(capacity.subjects_used) >= max_subjects)
    /\ ~(capacity.last_topic = Some(topic) /\ capacity.sessions_used > 0)

can_fit_session_any_subject(capacity, minutes, subject, topic, max_subjects) ==
    /\ ~(capacity.available_minutes < minutes)
    /\ ~(capacity.sessions_used >= capacity.max_sessions)
    /\ ~(capacity.last_topic = Some(topic) /\ capacity.sessions_used > 0)

can_fit_session_any_sessions(capacity, minutes, subject, topic, max_subjects) ==
    /\ ~(capacity.available_minutes < minutes)
    /\ ~(subject \notin capacity.subjects_used
            /\ Cardinality(capacity.subjects_used) >= max_subjects)
    /\ ~(capacity.last_topic = Some(topic) /\ capacity.sessions_used > 0)

can_fit_session(capacity, minutes, subject, topic, max_subjects) ==
    /\ ~(capacity.available_minutes < minutes)
    /\ ~(capacity.sessions_used >= capacity.max_sessions)
    /\ ~(subject \notin capacity.subjects_used
            /\ Cardinality(capacity.subjects_used) >= max_subjects)
    /\ ~(capacity.last_topic = Some(topic) /\ capacity.sessions_used > 0)

allocate_keeping_last_topic(capacity, minutes, subject, topic) ==
    [capacity EXCEPT !.available_minutes = @ - minutes,
                     !.sessions_used = @ + 1,
                     !.subjects_used = @ \cup {subject}]

allocate(capacity, minutes, subject, topic) ==
    [capacity EXCEPT !.available_minutes = @ - minutes,
                     !.sessions_used = @ + 1,
                     !.subjects_used = @ \cup {subject},
                     !.last_topic = Some(topic)]

BufferMinutesNone(raw_minutes, buffer_percentage) == 0

BufferMinutes(raw_minutes, buffer_percentage) ==
    (raw_minutes * buffer_percentage) \div 100

DayCapacity(avail, prefs, d) ==
    LET raw_minutes == hours_to_minutes(get_hours_for_date(avail, d))
    IN  [date                |-> d,
         total_minutes       |-> raw_minutes,
         available_minutes   |-> raw_minutes
                                   - BufferMinutes(raw_minutes, prefs.buffer_percentage),
         max_sessions        |-> prefs.max_sessions_per_day,
         sessions_used       |-> 0,
         subjects_used       |-> {},
         last_topic          |-> None,
         next_available_time |-> avail.start_time]

\* a capacity map kept between calls and handed out again for the same dates
build_capacity_map_cached(avail, prefs, start_date, end_d) ==
    LET cached == {j \in DOMAIN capacity_map :
                     /\ DOMAIN capacity_map[j] # {}
                     /\ DOMAIN capacity_map[j] = date_range(start_date, end_d)}
    IN  IF cached = {}
        THEN [d \in date_range(start_date, end_d) |-> DayCapacity(avail, prefs, d)]
        ELSE capacity_map[CHOOSE j \in cached : TRUE]

build_capacity_map(avail, prefs, start_date, end_d) ==
    [d \in date_range(start_date, end_d) |-> DayCapacity(avail, prefs, d)]

(***************************************************************************)
(* scheduler.py: TimetableScheduler, the pure parts.                       *)
(***************************************************************************)
determine_horizon_from_first(event_list, cur_date) ==
    IF event_list = <<>> THEN add_days(cur_date, 30)
    ELSE add_days(event_list[1].target_date, 3)

determine_horizon(event_list, cur_date) ==
    IF event_list = <<>> THEN add_days(cur_date, 30)
    ELSE add_days(SetMax({event_list[k].target_date : k \in DOMAIN event_list}), 3)

TopicDeadline(event_list, end_d) ==
    IF event_list # <<>>
    THEN SetMax({event_list[k].target_date : k \in DOMAIN event_list})
    ELSE end_d

\* _decompose_all: the tasks of the events, then of the topics, ids counting on
RECURSIVE DecomposeEvents(_, _, _)
DecomposeEvents(event_list, session_length, counter) ==
    IF event_list = <<>> THEN <<>>
    ELSE LET first == decompose_event(Head(event_list), session_length, counter)
         IN  first \o DecomposeEvents(Tail(event_list), session_length,
                                      counter + Len(first))

RECURSIVE DecomposeTopics(_, _, _, _)
DecomposeTopics(topic_list, deadline, session_length, counter) ==
    IF topic_list = <<>> THEN <<>>
    ELSE LET first == decompose_topic(Head(topic_list), deadline, session_length, counter)
         IN  first \o DecomposeTopics(Tail(topic_list), deadline, session_length,
                                      counter + Len(first))

decompose_all(event_list, topic_list, end_d, session_length, counter) ==
    LET event_tasks == DecomposeEvents(event_list, session_length, counter)
    IN  event_tasks
          \o DecomposeTopics(topic_list, TopicDeadline(event_list, end_d),
                             session_length, counter + Len(event_tasks))

\* the dates _allocate_task tries first, in order
ValidDates(cur_date, task) ==
    [k \in 1..Max(0, task.deadline - cur_date + 1) |-> cur_date + k - 1]

\* the dates past the deadline that _allocate_task falls back to, in order
FallbackDates(task) == [offset \in 1..3 |-> add_days(task.deadline, offset)]

Fits(cmap, d, task, max_subjects) ==
    /\ d \in DOMAIN cmap
    /\ can_fit_session(cmap[d], task.required_minutes, task.subject, task.topic,
                       max_subjects)

\* the last date of the list that is in the capacity map and fits, or None
RECURSIVE LastFit(_, _, _, _)
LastFit(dates, cmap, task, max_subjects) ==
    IF dates = <<>> THEN None
    ELSE IF Fits(cmap, dates[Len(dates)], task, max_subjects)
         THEN Some(dates[Len(dates)])
         ELSE CHOOSE found \in
                  {LastFit(front, cmap, task, max_subjects) :
                      front \in {SubSeq(dates, 1, Len(dates) - 1)}} :
                  TRUE

\* the first date of the list that is in the capacity map and fits, or None
RECURSIVE FirstFit(_, _, _, _)
FirstFit(dates, cmap, task, max_subjects) ==
    IF dates = <<>> THEN None
    ELSE IF Fits(cmap, Head(dates), task, max_subjects) THEN Some(Head(dates))
    ELSE FirstFit(Tail(dates), cmap, task, max_subjects)

MayOverflowInverted(task) == task.priority >= 5

MayOverflow(task) == task.priority <= 5

\* _allocate_task's decision: the date chosen (None: not scheduled) and
\* whether it is a fallback date past the deadline
allocate_task(task, cmap, cur_date, max_subjects) ==
    LET within == FirstFit(ValidDates(cur_date, task), cmap, task, max_subjects)
        beyond == FirstFit(FallbackDates(task), cmap, task, max_subjects)
    IN  IF within # None THEN [date |-> within, pushed |-> FALSE]
        ELSE IF MayOverflow(task) THEN [date |-> beyond, pushed |-> beyond # None]
        ELSE [date |-> None, pushed |-> FALSE]

\* _add_task_to_schedule on one day: the new DaySchedule, DayCapacity and task
add_task_to_schedule(day_schedule, capacity, task, target_date, break_length) ==
    LET start_time == capacity.next_available_time
        end_time   == add_minutes_to_time(start_time, task.required_minutes)
        day1       == add_slot(day_schedule, TimeSlot(start_time, end_time, task))
        cap1       == allocate(capacity, task.required_minutes, task.subject, task.topic)
        cap2       == [cap1 EXCEPT !.next_available_time =
                          add_minutes_to_time(start_time,
                                              task.required_minutes + break_length)]
        day2       == IF cap2.total_minutes > 0
                      THEN [day1 EXCEPT !.capacity_used =
                              [num |-> cap2.total_minutes - cap2.available_minutes,
                               den |-> cap2.total_minutes]]
                      ELSE day1
    IN  [day      |-> day2,
         capacity |-> cap2,
         task     |-> mark_scheduled(task, target_date, Len(day1.slots) - 1)]

CapacityWarning(d, kind, topic, count, affected_tasks, severity) ==
    [date           |-> d,
     message        |-> [kind |-> kind, topic |-> topic, count |-> count],
     affected_tasks |-> affected_tasks,
     severity       |-> severity]

(***************************************************************************)
(* The inputs a scheduler is constructed from.  Event dates and excluded   *)
(* dates are given relative to current_date.                               *)
(***************************************************************************)
CurrentDates == {0, 5}

EventChoices ==
    { [event_type |-> "deadline", subject |-> "Physics", topic |-> Some("Waves"),
       offset |-> 0, priority_level |-> 3, estimated_effort_hours |-> 100],
      [event_type |-> "assignment", subject |-> "Math", topic |-> Some("Algebra"),
       offset |-> -2, priority_level |-> 5, estimated_effort_hours |-> 50],
      [event_type |-> "exam", subject |-> "Physics", topic |-> None,
       offset |-> 4, priority_level |-> 8, estimated_effort_hours |-> 300],
      [event_type |-> "lab", subject |-> "Chemistry", topic |-> None,
       offset |-> 2, priority_level |-> 6, estimated_effort_hours |-> 0] }

TopicChoices ==
    { [subject |-> "Math", topic |-> "Algebra", difficulty_score |-> 8,
       confidence_score |-> 2, estimated_hours |-> 100, is_concept_heavy |-> TRUE],
      [subject |-> "Biology", topic |-> "Cells", difficulty_score |-> 5,
       confidence_score |-> 5, estimated_hours |-> 50, is_concept_heavy |-> TRUE],
      [subject |-> "Physics", topic |-> "Optics", difficulty_score |-> 3,
       confidence_score |-> 8, estimated_hours |-> 25, is_concept_heavy |-> FALSE] }

AvailabilityChoices ==
    { [weekday_hours |-> 100, weekend_hours |-> 150, start_time |-> 9 * 60,
       end_time |-> 21 * 60, excluded_offsets |-> {}],
      [weekday_hours |-> 50, weekend_hours |-> 0, start_time |-> 9 * 60,
       end_time |-> 10 * 60, excluded_offsets |-> {1}],
      [weekday_hours |-> 400, weekend_hours |-> 600, start_time |-> 23 * 60,
       end_time |-> 23 * 60 + 30, excluded_offsets |-> {} ] }

PreferenceChoices ==
    { [session_length_minutes |-> 45, break_length_minutes |-> 15,
       max_sessions_per_day |-> 6, max_subjects_per_day |-> 3,
       buffer_percentage |-> 15],
      [session_length_minutes |-> 30, break_length_minutes |-> 0,
       max_sessions_per_day |-> 2, max_subjects_per_day |-> 1,
       buffer_percentage |-> 30],
      [session_length_minutes |-> 60, break_length_minutes |-> 5,
       max_sessions_per_day |-> 3, max_subjects_per_day |-> 2,
       buffer_percentage |-> 10] }

\* topic ids as update_confidence may be given them, one of no topic included
TopicIds == 0..MaxTopicsSmall

\* new_confidence values, some outside [0, 1]; on these and the confidences
\* the tasks can have, new < old - 0.2 in floats agrees with the exact test
ConfidenceChoices == {-5, 4, 12}

normalize_events(events_data, cur_date) ==
    [k \in DOMAIN events_data |->
        [id                     |-> k,
         event_type             |-> events_data[k].event_type,
         subject                |-> events_data[k].subject,
         topic                  |-> events_data[k].topic,
         target_date            |-> cur_date + events_data[k].offset,
         priority_level         |-> clamp(events_data[k].priority_level, 1, 10),
         estimated_effort_hours |-> events_data[k].estimated_effort_hours]]

normalize_topics(topics_data) ==
    [k \in DOMAIN topics_data |->
        [id               |-> k - 1,
         subject          |-> topics_data[k].subject,
         topic            |-> topics_data[k].topic,
         difficulty_score |-> clamp(topics_data[k].difficulty_score, 0, 10),
         confidence_score |-> clamp(topics_data[k].confidence_score, 0, 10),
         estimated_hours  |-> topics_data[k].estimated_hours,
         is_concept_heavy |-> topics_data[k].is_concept_heavy]]

normalize_availability(availability_data, cur_date) ==
    [weekday_hours  |-> availability_data.weekday_hours,
     weekend_hours  |-> availability_data.weekend_hours,
     start_time     |-> availability_data.start_time,
     end_time       |-> availability_data.end_time,
     excluded_dates |-> {cur_date + o : o \in availability_data.excluded_offsets}]

normalize_preferences(preferences_data) ==
    [preferences_data EXCEPT !.buffer_percentage = clamp(@, 10, 30)]

Instances == {1}

TwoInstances == {1, 2}

NoCall == [op |-> "none", topic_id |-> -1, new_confidence |-> 0, returned |-> <<>>]

\* TimetableScheduler.__init__ for every instance of I, all from the same inputs
InitOn(I, max_events, max_topics) ==
    \E cd \in CurrentDates,
       ev \in SeqsUpTo(EventChoices, max_events),
       tp \in SeqsUpTo(TopicChoices, max_topics),
       av \in AvailabilityChoices,
       pr \in PreferenceChoices :
        /\ current_date = [i \in I |-> cd]
        /\ events = [i \in I |-> normalize_events(ev, cd)]
        /\ availability = [i \in I |-> normalize_availability(av, cd)]
        /\ preferences = [i \in I |-> normalize_preferences(pr)]
        /\ topics = [i \in I |-> normalize_topics(tp)]
        /\ task_counter = [i \in I |-> 0]
        /\ tasks = [i \in I |-> <<>>]
        /\ warnings = [i \in I |-> <<>>]
        /\ schedule = [i \in I |-> <<>>]
        /\ end_date = [i \in I |-> cd]
        /\ capacity_map = [i \in I |-> <<>>]
        /\ ranked = [i \in I |-> <<>>]
        /\ rank_pos = [i \in I |-> 0]
        /\ revision_queue = [i \in I |-> <<>>]
        /\ metadata = [i \in I |-> None]
        /\ last_call = [i \in I |-> NoCall]
        /\ calls = [i \in I |-> 0]
        /\ pc = [i \in I |-> "created"]

Init == InitOn(Instances, MaxEvents, MaxTopics)

(***************************************************************************)
(* generate(), one action per step.                                        *)
(***************************************************************************)
\* the task counter kept once for all decomposers instead of per instance
DecomposeSharedCounter(i) ==
    /\ pc[i] = "created"
    /\ LET end_d     == determine_horizon(events[i], current_date[i])
           shared    == SetMax({task_counter[j] : j \in DOMAIN task_counter})
           new_tasks == decompose_all(events[i], topics[i], end_d,
                                      preferences[i].session_length_minutes,
                                      shared)
       IN  /\ end_date' = [end_date EXCEPT ![i] = end_d]
           /\ tasks' = [tasks EXCEPT ![i] = @ \o new_tasks]
           /\ task_counter' = [j \in DOMAIN task_counter |-> shared + Len(new_tasks)]
    /\ pc' = [pc EXCEPT ![i] = "decomposed"]
    /\ UNCHANGED <<inputs, warnings, schedule, capacity_map, ranked, rank_pos,
                   revision_queue, metadata, last_call, calls>>

\* steps 1 and 2: _determine_horizon, _decompose_all
Decompose(i) ==
    /\ pc[i] = "created"
    /\ LET end_d     == determine_horizon(events[i], current_date[i])
           new_tasks == decompose_all(events[i], topics[i], end_d,
                                      preferences[i].session_length_minutes,
                                      task_counter[i])
       IN  /\ end_date' = [end_date EXCEPT ![i] = end_d]
           /\ tasks' = [tasks EXCEPT ![i] = @ \o new_tasks]
           /\ task_counter' = [task_counter EXCEPT ![i] = @ + Len(new_tasks)]
    /\ pc' = [pc EXCEPT ![i] = "decomposed"]
    /\ UNCHANGED <<inputs, warnings, schedule, capacity_map, ranked, rank_pos,
                   revision_queue, metadata, last_call, calls>>

initialize_schedule(old_schedule, start_date, end_d) ==
    [d \in DOMAIN old_schedule \cup date_range(start_date, end_d) |->
        IF d \in date_range(start_date, end_d) THEN EmptyDaySchedule
        ELSE old_schedule[d]]

\* steps 3 and 4: build_capacity_map, _initialize_schedule
Plan(i) ==
    /\ pc[i] = "decomposed"
    /\ capacity_map' = [capacity_map EXCEPT ![i] =
          build_capacity_map(availability[i], preferences[i], current_date[i],
                             end_date[i])]
    /\ schedule' = [schedule EXCEPT ![i] =
          initialize_schedule(@, current_date[i], end_date[i])]
    /\ pc' = [pc EXCEPT ![i] = "planned"]
    /\ UNCHANGED <<inputs, task_counter, tasks, warnings, end_date, ranked, rank_pos,
                   revision_queue, metadata, last_call, calls>>

PendingIndexes(task_list) ==
    SelectSeq([k \in DOMAIN task_list |-> k],
              LAMBDA k : task_list[k].status = "pending")

\* step 5, _schedule_tasks up to its loop: filter, score and rank
Rank(i) ==
    /\ pc[i] = "planned"
    /\ ranked' = [ranked EXCEPT ![i] =
          rank_tasks(tasks[i], PendingIndexes(tasks[i]), current_date[i],
                     days_between(current_date[i], end_date[i]))]
    /\ rank_pos' = [rank_pos EXCEPT ![i] = 0]
    /\ pc' = [pc EXCEPT ![i] = "allocating"]
    /\ UNCHANGED <<inputs, task_counter, tasks, warnings, schedule, end_date,
                   capacity_map, revision_queue, metadata, last_call, calls>>

\* a loop that stays on a task it could not place and tries it again
AllocateNextRetrying(i) ==
    /\ pc[i] = "allocating"
    /\ rank_pos[i] < Len(ranked[i])
    /\ LET k      == ranked[i][rank_pos[i] + 1]
           task   == tasks[i][k]
           choice == allocate_task(task, capacity_map[i], current_date[i],
                                   preferences[i].max_subjects_per_day)
       IN  IF choice.date = None
           THEN UNCHANGED <<tasks, schedule, capacity_map, warnings, rank_pos>>
           ELSE LET d   == choice.date[1]
                    new == add_task_to_schedule(schedule[i][d], capacity_map[i][d],
                                                task, d,
                                                preferences[i].break_length_minutes)
                IN  /\ tasks' = [tasks EXCEPT ![i][k] = new.task]
                    /\ schedule' = [schedule EXCEPT ![i][d] = new.day]
                    /\ capacity_map' = [capacity_map EXCEPT ![i][d] = new.capacity]
                    /\ warnings' = [warnings EXCEPT ![i] =
                          IF choice.pushed
                          THEN Append(@, CapacityWarning(d, "pushed_past_deadline",
                                                         task.topic, 0,
                                                         <<task.task_id>>, "warning"))
                          ELSE @]
                    /\ rank_pos' = [rank_pos EXCEPT ![i] = @ + 1]
    /\ UNCHANGED <<inputs, task_counter, end_date, ranked, revision_queue, metadata,
                   last_call, calls, pc>>

\* step 5, one turn of the loop of _schedule_tasks: _allocate_task
AllocateNext(i) ==
    /\ pc[i] = "allocating"
    /\ rank_pos[i] < Len(ranked[i])
    /\ LET k      == ranked[i][rank_pos[i] + 1]
           task   == tasks[i][k]
           choice == allocate_task(task, capacity_map[i], current_date[i],
                                   preferences[i].max_subjects_per_day)
       IN  IF choice.date = None
           THEN UNCHANGED <<tasks, schedule, capacity_map, warnings>>
           ELSE LET d   == choice.date[1]
                    new == add_task_to_schedule(schedule[i][d], capacity_map[i][d],
                                                task, d,
                                                preferences[i].break_length_minutes)
                IN  /\ tasks' = [tasks EXCEPT ![i][k] = new.task]
                    /\ schedule' = [schedule EXCEPT ![i][d] = new.day]
                    /\ capacity_map' = [capacity_map EXCEPT ![i][d] = new.capacity]
                    /\ warnings' = [warnings EXCEPT ![i] =
                          IF choice.pushed
                          THEN Append(@, CapacityWarning(d, "pushed_past_deadline",
                                                         task.topic, 0,
                                                         <<task.task_id>>, "warning"))
                          ELSE @]
    /\ rank_pos' = [rank_pos EXCEPT ![i] = @ + 1]
    /\ UNCHANGED <<inputs, task_counter, end_date, ranked, revision_queue, metadata,
                   last_call, calls, pc>>

\* _add_spaced_repetition: the scheduled initial-learning tasks of the
\* concept-heavy topics, as indexes into the task list, in list order
InitialTasks(task_list, topic_list) ==
    LET concept_topic_ids == {topic_list[j].id : j \in
                                {j \in DOMAIN topic_list : topic_list[j].is_concept_heavy}}
    IN  SelectSeq([k \in DOMAIN task_list |-> k],
                  LAMBDA k : /\ task_list[k].status = "scheduled"
                             /\ task_list[k].task_type = "initial_learning"
                             /\ task_list[k].source_topic_id # None
                             /\ task_list[k].source_topic_id[1] \in concept_topic_ids
                             /\ task_list[k].scheduled_date # None)

\* whether task k replaces the task kept so far for its topic
ReplacesExistingByLater(task_list, k, existing) ==
    task_list[k].scheduled_date[1] > task_list[existing].scheduled_date[1]

ReplacesExisting(task_list, k, existing) ==
    task_list[k].scheduled_date[1] < task_list[existing].scheduled_date[1]

\* the dict topic_tasks as the list of its values in insertion order:
\* one task per topic, the earliest scheduled
RECURSIVE TopicTasks(_, _, _)
TopicTasks(task_list, initial, kept) ==
    IF initial = <<>> THEN kept
    ELSE LET k    == Head(initial)
             same == {j \in DOMAIN kept :
                        task_list[kept[j]].source_topic_id = task_list[k].source_topic_id}
         IN  CHOOSE topic_tasks \in
                 {TopicTasks(task_list, rest, updated) :
                     rest \in {Tail(initial)},
                     updated \in
                        {IF same = {} THEN Append(kept, k)
                         ELSE LET j == CHOOSE j \in same : TRUE
                              IN  IF ReplacesExisting(task_list, k, kept[j])
                                  THEN [kept EXCEPT ![j] = k]
                                  ELSE kept}} :
                 TRUE

\* the revision candidates of one source task, in the order they are tried
RevisionCandidates(task_list, source, end_d) ==
    LET revision_dates == get_spaced_repetition_dates(
                              task_list[source].scheduled_date[1], end_d,
                              REVISION_INTERVALS)
    IN  [n \in DOMAIN revision_dates |->
            [source |-> source, rev_date |-> revision_dates[n], iteration |-> n]]

RevisionQueue(task_list, topic_list, end_d) ==
    CHOOSE candidates \in
        {FlattenSeq([n \in DOMAIN sources |->
                        RevisionCandidates(task_list, sources[n], end_d)]) :
            sources \in {TopicTasks(task_list, initial, <<>>) :
                            initial \in {InitialTasks(task_list, topic_list)}}} :
        TRUE

\* step 6, _add_spaced_repetition up to its loop: the candidates to try
StartRepetition(i) ==
    /\ pc[i] = "allocating"
    /\ rank_pos[i] = Len(ranked[i])
    /\ revision_queue' = [revision_queue EXCEPT ![i] =
          RevisionQueue(tasks[i], topics[i], end_date[i])]
    /\ pc' = [pc EXCEPT ![i] = "revising"]
    /\ UNCHANGED <<inputs, task_counter, tasks, warnings, schedule, end_date,
                   capacity_map, ranked, rank_pos, metadata, last_call, calls>>

\* a turn that keeps the revision task it could not place, as a pending task
ReviseNextKeepingDropped(i) ==
    /\ pc[i] = "revising"
    /\ revision_queue[i] # <<>>
    /\ LET cand          == Head(revision_queue[i])
           revision_task == create_revision_task(tasks[i][cand.source], cand.rev_date,
                                                 cand.iteration, task_counter[i])
           d             == cand.rev_date
       IN  IF Fits(capacity_map[i], d, revision_task,
                   preferences[i].max_subjects_per_day)
           THEN LET new == add_task_to_schedule(schedule[i][d], capacity_map[i][d],
                                                revision_task, d,
                                                preferences[i].break_length_minutes)
                IN  /\ tasks' = [tasks EXCEPT ![i] = Append(@, new.task)]
                    /\ schedule' = [schedule EXCEPT ![i][d] = new.day]
                    /\ capacity_map' = [capacity_map EXCEPT ![i][d] = new.capacity]
           ELSE /\ tasks' = [tasks EXCEPT ![i] = Append(@, revision_task)]
                /\ UNCHANGED <<schedule, capacity_map>>
    /\ task_counter' = [task_counter EXCEPT ![i] = @ + 1]
    /\ revision_queue' = [revision_queue EXCEPT ![i] = Tail(@)]
    /\ UNCHANGED <<inputs, warnings, end_date, ranked, rank_pos, metadata, last_call,
                   calls, pc>>

\* step 6, one turn of the inner loop: create the revision task, try its date
ReviseNext(i) ==
    /\ pc[i] = "revising"
    /\ revision_queue[i] # <<>>
    /\ LET cand          == Head(revision_queue[i])
           revision_task == create_revision_task(tasks[i][cand.source], cand.rev_date,
                                                 cand.iteration, task_counter[i])
           d             == cand.rev_date
       IN  IF Fits(capacity_map[i], d, revision_task,
                   preferences[i].max_subjects_per_day)
           THEN LET new == add_task_to_schedule(schedule[i][d], capacity_map[i][d],
                                                revision_task, d,
                                                preferences[i].break_length_minutes)
                IN  /\ tasks' = [tasks EXCEPT ![i] = Append(@, new.task)]
                    /\ schedule' = [schedule EXCEPT ![i][d] = new.day]
                    /\ capacity_map' = [capacity_map EXCEPT ![i][d] = new.capacity]
           ELSE UNCHANGED <<tasks, schedule, capacity_map>>
    /\ task_counter' = [task_counter EXCEPT ![i] = @ + 1]
    /\ revision_queue' = [revision_queue EXCEPT ![i] = Tail(@)]
    /\ UNCHANGED <<inputs, warnings, end_date, ranked, rank_pos, metadata, last_call,
                   calls, pc>>

\* the distinct elements of a list in the order of their first occurrence
RECURSIVE DistinctInOrder(_)
DistinctInOrder(s) ==
    IF s = <<>> THEN <<>>
    ELSE CHOOSE result \in
             {IF s[Len(s)] \in Range(init) THEN init ELSE Append(init, s[Len(s)]) :
                 init \in {DistinctInOrder(front) : front \in {SubSeq(s, 1, Len(s) - 1)}}} :
             TRUE

CompletenessSeverityAbove8(task_list, group) ==
    IF \E n \in DOMAIN group : task_list[group[n]].priority > 8
    THEN "critical" ELSE "warning"

CompletenessSeverity(task_list, group) ==
    IF \E n \in DOMAIN group : task_list[group[n]].priority >= 8
    THEN "critical" ELSE "warning"

\* _check_completeness: the warnings appended, one per deadline of a pending task
check_completeness(task_list) ==
    CHOOSE new_warnings \in UNION
        {{[n \in DOMAIN deadlines |->
            LET group == SelectSeq(unscheduled,
                                   LAMBDA k : task_list[k].deadline = deadlines[n])
            IN  CapacityWarning(deadlines[n], "could_not_schedule", "", Len(group),
                                [m \in DOMAIN group |-> task_list[group[m]].task_id],
                                CompletenessSeverity(task_list, group))] :
            deadlines \in {DistinctInOrder([n \in DOMAIN unscheduled |->
                                               task_list[unscheduled[n]].deadline])}} :
            unscheduled \in {PendingIndexes(task_list)}} :
        TRUE

\* step 7: _check_completeness
CheckCompleteness(i) ==
    /\ pc[i] = "revising"
    /\ revision_queue[i] = <<>>
    /\ warnings' = [warnings EXCEPT ![i] = @ \o check_completeness(tasks[i])]
    /\ pc' = [pc EXCEPT ![i] = "checked"]
    /\ UNCHANGED <<inputs, task_counter, tasks, schedule, end_date, capacity_map,
                   ranked, rank_pos, revision_queue, metadata, last_call, calls>>

CountStatus(task_list, status) ==
    Cardinality({k \in DOMAIN task_list : task_list[k].status = status})

\* step 8: the output's metadata
BuildOutput(i) ==
    /\ pc[i] = "checked"
    /\ metadata' = [metadata EXCEPT ![i] = Some(
          [generated_at    |-> current_date[i],
           horizon_end     |-> end_date[i],
           total_tasks     |-> Len(tasks[i]),
           scheduled_tasks |-> CountStatus(tasks[i], "scheduled"),
           total_events    |-> Len(events[i]),
           total_topics    |-> Len(topics[i])])]
    /\ pc' = [pc EXCEPT ![i] = "done"]
    /\ UNCHANGED <<inputs, task_counter, tasks, warnings, schedule, end_date,
                   capacity_map, ranked, rank_pos, revision_queue, last_call, calls>>

(***************************************************************************)
(* The adaptivity hooks, on the timetable of a finished generate().        *)
(***************************************************************************)
ConfidenceDroppedAtAll(new_confidence, old_confidence) ==
    new_confidence < old_confidence

ConfidenceDropped(new_confidence, old_confidence) ==
    new_confidence < old_confidence - 2

ConfidenceRevision(task, topic_id, new_confidence) ==
    [StudyTask(WithSuffix(task.task_id, "confidence_revision"),
               task.subject, task.topic, task.deadline,
               Max(15, task.required_minutes \div 2),
               Min(10, task.priority + 2),
               task.difficulty_score, new_confidence, "revision")
     EXCEPT !.parent_task_id = Some(task.task_id),
            !.source_topic_id = Some(topic_id)]

\* the tasks the loop of update_confidence visits: those of the list up to
\* and including the one at which the loop breaks
VisitedByUpdate(task_list, topic_id, new_confidence) ==
    LET dropped == {k \in DOMAIN task_list :
                      /\ task_list[k].source_topic_id = Some(topic_id)
                      /\ ConfidenceDropped(new_confidence, task_list[k].confidence_score)}
    IN  IF dropped = {} THEN DOMAIN task_list ELSE 1..SetMin(dropped)

\* update_confidence: the task list after the call and the list returned
update_confidence(task_list, topic_id, confidence) ==
    LET new_confidence == clamp(confidence, 0, 10)
        visited == VisitedByUpdate(task_list, topic_id, new_confidence)
        dropped == {k \in visited :
                      /\ task_list[k].source_topic_id = Some(topic_id)
                      /\ ConfidenceDropped(new_confidence, task_list[k].confidence_score)}
    IN  [tasks    |-> [k \in DOMAIN task_list |->
                          IF k \in visited /\ task_list[k].source_topic_id = Some(topic_id)
                          THEN [task_list[k] EXCEPT !.confidence_score = new_confidence]
                          ELSE task_list[k]],
         returned |-> IF dropped = {} THEN <<>>
                      ELSE <<ConfidenceRevision(task_list[SetMin(dropped)], topic_id,
                                                new_confidence)>>]

UpdateConfidence(i) ==
    /\ pc[i] = "done"
    /\ calls[i] < MaxCalls
    /\ \E topic_id \in TopicIds, confidence \in ConfidenceChoices :
          LET out == update_confidence(tasks[i], topic_id, confidence)
          IN  /\ tasks' = [tasks EXCEPT ![i] = out.tasks]
              /\ last_call' = [last_call EXCEPT ![i] =
                    [op |-> "update_confidence", topic_id |-> topic_id,
                     new_confidence |-> confidence, returned |-> out.returned]]
    /\ calls' = [calls EXCEPT ![i] = @ + 1]
    /\ UNCHANGED <<inputs, task_counter, warnings, schedule, end_date, capacity_map,
                   ranked, rank_pos, revision_queue, metadata, pc>>

\* handle_missed_session: the task list and the warnings after the call; the
\* task found is the first of the list with the id
handle_missed_session(task_list, warning_list, task_id, cur_date) ==
    LET found == {k \in DOMAIN task_list : task_list[k].task_id = task_id}
    IN  IF found = {}
        THEN [tasks |-> task_list, warnings |-> warning_list]
        ELSE LET k           == SetMin(found)
                 task        == mark_missed(task_list[k])
                 rescheduled == clone_for_reschedule(task,
                                    WithSuffix(task_id, "reschedule"))
             IN  [tasks    |-> Append([task_list EXCEPT ![k] = task], rescheduled),
                  warnings |-> Append(warning_list,
                                  CapacityWarning(cur_date, "missed", task.topic, 0,
                                                  <<task_id, rescheduled.task_id>>,
                                                  "warning"))]

\* positions of the tasks the callers below name: the first and the last task
TargetPositions(task_list) == {k \in DOMAIN task_list : k = 1 \/ k = Len(task_list)}

\* task_id arguments: the ids at these positions and an id no task has
MissedTargets(task_list) ==
    {task_list[k].task_id : k \in TargetPositions(task_list)} \cup {TaskId("task", 0)}

HandleMissedSession(i) ==
    /\ pc[i] = "done"
    /\ calls[i] < MaxMissedCalls
    /\ \E task_id \in MissedTargets(tasks[i]) :
          LET out == handle_missed_session(tasks[i], warnings[i], task_id,
                                           current_date[i] + 1)
          IN  /\ tasks' = [tasks EXCEPT ![i] = out.tasks]
              /\ warnings' = [warnings EXCEPT ![i] = out.warnings]
              /\ last_call' = [last_call EXCEPT ![i] =
                    [op |-> "handle_missed_session", task_id |-> task_id]]
    /\ calls' = [calls EXCEPT ![i] = @ + 1]
    /\ UNCHANGED <<inputs, task_counter, schedule, end_date, capacity_map,
                   ranked, rank_pos, revision_queue, metadata, pc>>

\* a caller of the timetable sets the status of one of its tasks
MarkCompleted(i) ==
    /\ pc[i] = "done"
    /\ calls[i] < MaxLifecycleCalls
    /\ \E k \in TargetPositions(tasks[i]) :
          tasks' = [tasks EXCEPT ![i][k] = mark_completed(@)]
    /\ calls' = [calls EXCEPT ![i] = @ + 1]
    /\ last_call' = [last_call EXCEPT ![i] = [op |-> "mark_completed"]]
    /\ UNCHANGED <<inputs, task_counter, warnings, schedule, end_date, capacity_map,
                   ranked, rank_pos, revision_queue, metadata, pc>>

MarkMissed(i) ==
    /\ pc[i] = "done"
    /\ calls[i] < MaxLifecycleCalls
    /\ \E k \in TargetPositions(tasks[i]) :
          tasks' = [tasks EXCEPT ![i][k] = mark_missed(@)]
    /\ calls' = [calls EXCEPT ![i] = @ + 1]
    /\ last_call' = [last_call EXCEPT ![i] = [op |-> "mark_missed"]]
    /\ UNCHANGED <<inputs, task_counter, warnings, schedule, end_date, capacity_map,
                   ranked, rank_pos, revision_queue, metadata, pc>>

MarkScheduled(i) ==
    /\ pc[i] = "done"
    /\ calls[i] < MaxLifecycleCalls
    /\ \E k \in TargetPositions(tasks[i]) :
          tasks' = [tasks EXCEPT ![i][k] = mark_scheduled(@, current_date[i], 0)]
    /\ calls' = [calls EXCEPT ![i] = @ + 1]
    /\ last_call' = [last_call EXCEPT ![i] = [op |-> "mark_scheduled"]]
    /\ UNCHANGED <<inputs, task_counter, warnings, schedule, end_date, capacity_map,
                   ranked, rank_pos, revision_queue, metadata, pc>>

HandleMissedInLifecycle(i) ==
    /\ calls[i] < MaxLifecycleCalls
    /\ HandleMissedSession(i)

(***************************************************************************)
(* Specifications.                                                         *)
(***************************************************************************)
\* generate() of every instance, step by step
Next ==
    \E i \in Instances :
        \/ Decompose(i)
        \/ Plan(i)
        \/ Rank(i)
        \/ AllocateNext(i)
        \/ StartRepetition(i)
        \/ ReviseNext(i)
        \/ CheckCompleteness(i)
        \/ BuildOutput(i)

Spec == Init /\ [][Next]_vars

\* generate(), then adaptivity hook calls on its timetable
InitAdapt == InitOn(Instances, MaxEventsSmall, MaxTopicsSmall)

NextAdapt ==
    \E i \in Instances :
        \/ Decompose(i)
        \/ Plan(i)
        \/ Rank(i)
        \/ AllocateNext(i)
        \/ StartRepetition(i)
        \/ ReviseNext(i)
        \/ CheckCompleteness(i)
        \/ BuildOutput(i)
        \/ UpdateConfidence(i)

SpecAdapt == InitAdapt /\ [][NextAdapt]_vars

\* two schedulers built from identical inputs; the second one runs
\* generate() after the first has returned
InitTwoRuns == InitOn(TwoInstances, MaxEventsSmall, MaxTopicsSmall)

InTurn(i) == \A j \in TwoInstances : j < i => pc[j] = "done"

NextTwoRuns ==
    \E i \in TwoInstances :
        \/ InTurn(i) /\ Decompose(i)
        \/ InTurn(i) /\ Plan(i)
        \/ InTurn(i) /\ Rank(i)
        \/ InTurn(i) /\ AllocateNext(i)
        \/ InTurn(i) /\ StartRepetition(i)
        \/ InTurn(i) /\ ReviseNext(i)
        \/ InTurn(i) /\ CheckCompleteness(i)
        \/ InTurn(i) /\ BuildOutput(i)

SpecTwoRuns == InitTwoRuns /\ [][NextTwoRuns]_vars

\* decompose_event on one event of every effort and session length
SessionLengths == {15, 20, 45, 50, 90}

InitDecompose ==
    \E q \in 0..MaxEffortQuarters, len \in SessionLengths :
        /\ current_date = [i \in Instances |-> 0]
        /\ events = [i \in Instances |->
              normalize_events(<<[event_type |-> "exam", subject |-> "Math",
                                  topic |-> None, offset |-> 7, priority_level |-> 9,
                                  estimated_effort_hours |-> 25 * q]>>, 0)]
        /\ availability = [i \in Instances |->
              normalize_availability(
                  [weekday_hours |-> 400, weekend_hours |-> 600, start_time |-> 9 * 60,
                   end_time |-> 21 * 60, excluded_offsets |-> {}], 0)]
        /\ preferences = [i \in Instances |->
              normalize_preferences(
                  [session_length_minutes |-> len, break_length_minutes |-> 15,
                   max_sessions_per_day |-> 6, max_subjects_per_day |-> 3,
                   buffer_percentage |-> 15])]
        /\ topics = [i \in Instances |-> <<>>]
        /\ task_counter = [i \in Instances |-> 0]
        /\ tasks = [i \in Instances |-> <<>>]
        /\ warnings = [i \in Instances |-> <<>>]
        /\ schedule = [i \in Instances |-> <<>>]
        /\ end_date = [i \in Instances |-> 0]
        /\ capacity_map = [i \in Instances |-> <<>>]
        /\ ranked = [i \in Instances |-> <<>>]
        /\ rank_pos = [i \in Instances |-> 0]
        /\ revision_queue = [i \in Instances |-> <<>>]
        /\ metadata = [i \in Instances |-> None]
        /\ last_call = [i \in Instances |-> NoCall]
        /\ calls = [i \in Instances |-> 0]
        /\ pc = [i \in Instances |-> "created"]

NextDecompose == \E i \in Instances : Decompose(i)

SpecDecompose == InitDecompose /\ [][NextDecompose]_vars

\* a scheduler of instance 1 built from the given inputs
InitFrom(cur_date, events_data, topics_data, availability_data, preferences_data) ==
    /\ current_date = [i \in Instances |-> cur_date]
    /\ events = [i \in Instances |-> normalize_events(events_data, cur_date)]
    /\ availability = [i \in Instances |->
          normalize_availability(availability_data, cur_date)]
    /\ preferences = [i \in Instances |-> normalize_preferences(preferences_data)]
    /\ topics = [i \in Instances |-> normalize_topics(topics_data)]
    /\ task_counter = [i \in Instances |-> 0]
    /\ tasks = [i \in Instances |-> <<>>]
    /\ warnings = [i \in Instances |-> <<>>]
    /\ schedule = [i \in Instances |-> <<>>]
    /\ end_date = [i \in Instances |-> 0]
    /\ capacity_map = [i \in Instances |-> <<>>]
    /\ ranked = [i \in Instances |-> <<>>]
    /\ rank_pos = [i \in Instances |-> 0]
    /\ revision_queue = [i \in Instances |-> <<>>]
    /\ metadata = [i \in Instances |-> None]
    /\ last_call = [i \in Instances |-> NoCall]
    /\ calls = [i \in Instances |-> 0]
    /\ pc = [i \in Instances |-> "created"]

\* availability and preferences as the normalizer completes an input that
\* gives the keys of the one-exam scenario only
DefaultAvailability ==
    [weekday_hours |-> 400, weekend_hours |-> 600, start_time |-> 9 * 60,
     end_time |-> 21 * 60, excluded_offsets |-> {}]

DefaultPreferences ==
    [session_length_minutes |-> 45, break_length_minutes |-> 15,
     max_sessions_per_day |-> 6, max_subjects_per_day |-> 3,
     buffer_percentage |-> 15]

\* one exam (Math, priority 9, 5 hours, deadline current_date + 7), no
\* topics, on every current_date
InitExam ==
    \E cur_date \in 0..MaxStartDay :
        InitFrom(cur_date,
                 <<[event_type |-> "exam", subject |-> "Math",
                    topic |-> Some("Calculus"), offset |-> 7, priority_level |-> 9,
                    estimated_effort_hours |-> 500]>>,
                 <<>>, DefaultAvailability, DefaultPreferences)

NextExam ==
    \E i \in Instances :
        \/ Decompose(i)
        \/ Plan(i)
        \/ Rank(i)
        \/ AllocateNext(i)
        \/ StartRepetition(i)
        \/ CheckCompleteness(i)
        \/ BuildOutput(i)

SpecExam == InitExam /\ [][NextExam]_vars

\* rank_tasks on two tasks that differ in priority or in confidence only
PriorityChoices == {0, 1, 5, 9, 10, 11}

TaskConfidenceChoices == {-2, 0, 3, 5, 10, 12}

DifficultyChoices == {0, 7}

DeadlineOffsets == {0, 3, 40}

TaskTypeChoices == {"exam_prep", "revision", "initial_learning", "practice"}

ScoredPairs ==
    {<<StudyTask(TaskId("task", 1), "Math", "Algebra", dl, 45, p, d, c, ty),
       StudyTask(TaskId("task", 2), "Math", "Algebra", dl, 45, p2, d, c2, ty)>> :
        <<p, p2, c, c2, d, dl, ty>> \in
            {x \in PriorityChoices \X PriorityChoices \X TaskConfidenceChoices
                    \X TaskConfidenceChoices \X DifficultyChoices \X DeadlineOffsets
                    \X TaskTypeChoices :
                (x[1] = x[2]) # (x[3] = x[4])}}

InitScore ==
    \E pair \in ScoredPairs :
        /\ current_date = [i \in Instances |-> 0]
        /\ events = [i \in Instances |-> <<>>]
        /\ availability = [i \in Instances |->
              normalize_availability(DefaultAvailability, 0)]
        /\ preferences = [i \in Instances |-> normalize_preferences(DefaultPreferences)]
        /\ topics = [i \in Instances |-> <<>>]
        /\ task_counter = [i \in Instances |-> 2]
        /\ tasks = [i \in Instances |-> pair]
        /\ warnings = [i \in Instances |-> <<>>]
        /\ schedule = [i \in Instances |-> <<>>]
        /\ end_date = [i \in Instances |-> 30]
        /\ capacity_map = [i \in Instances |-> <<>>]
        /\ ranked = [i \in Instances |-> <<>>]
        /\ rank_pos = [i \in Instances |-> 0]
        /\ revision_queue = [i \in Instances |-> <<>>]
        /\ metadata = [i \in Instances |-> None]
        /\ last_call = [i \in Instances |-> NoCall]
        /\ calls = [i \in Instances |-> 0]
        /\ pc = [i \in Instances |-> "planned"]

NextScore == \E i \in Instances : Rank(i)

SpecScore == InitScore /\ [][NextScore]_vars

\* generate(), then handle_missed_session calls on its timetable
NextMissed ==
    \E i \in Instances :
        \/ Decompose(i)
        \/ Plan(i)
        \/ Rank(i)
        \/ AllocateNext(i)
        \/ StartRepetition(i)
        \/ ReviseNext(i)
        \/ CheckCompleteness(i)
        \/ BuildOutput(i)
        \/ HandleMissedSession(i)

SpecMissed == InitAdapt /\ [][NextMissed]_vars

\* generate(), then handle_missed_session and the status setters of StudyTask
\* called on the tasks of its timetable
NextLifecycle ==
    \E i \in Instances :
        \/ Decompose(i)
        \/ Plan(i)
        \/ Rank(i)
        \/ AllocateNext(i)
        \/ StartRepetition(i)
        \/ ReviseNext(i)
        \/ CheckCompleteness(i)
        \/ BuildOutput(i)
        \/ HandleMissedInLifecycle(i)
        \/ MarkScheduled(i)
        \/ MarkCompleted(i)
        \/ MarkMissed(i)

SpecLifecycle == InitAdapt /\ [][NextLifecycle]_vars

\* rank_tasks and the allocation loop on three tasks that differ in deadline
\* and priority only, so that equal scores are equal floats; the deadlines
\* lie before, on and after current_date, and the horizon handed to the
\* scorer is negative, zero or positive
RankedPriorities == {5, 9}

RankedDeadlines == {-3, 0, 2, 5}

HorizonEnds == {-2, 0, 7}

RankedTask(n, deadline, priority) ==
    StudyTask(TaskId("task", n),
              <<"Math", "Physics", "Biology">>[n],
              <<"Algebra", "Waves", "Cells">>[n],
              deadline, 45, priority, 5, 5, "initial_learning")

InitRank ==
    \E dl \in [1..3 -> RankedDeadlines], p \in [1..3 -> RankedPriorities],
       end_d \in HorizonEnds :
        /\ current_date = [i \in Instances |-> 0]
        /\ events = [i \in Instances |-> <<>>]
        /\ availability = [i \in Instances |->
              normalize_availability(DefaultAvailability, 0)]
        /\ preferences = [i \in Instances |-> normalize_preferences(DefaultPreferences)]
        /\ topics = [i \in Instances |-> <<>>]
        /\ task_counter = [i \in Instances |-> 3]
        /\ tasks = [i \in Instances |-> [n \in 1..3 |-> RankedTask(n, dl[n], p[n])]]
        /\ warnings = [i \in Instances |-> <<>>]
        /\ schedule = [i \in Instances |-> initialize_schedule(<<>>, 0, end_d)]
        /\ end_date = [i \in Instances |-> end_d]
        /\ capacity_map = [i \in Instances |->
              build_capacity_map(normalize_availability(DefaultAvailability, 0),
                                 normalize_preferences(DefaultPreferences), 0, end_d)]
        /\ ranked = [i \in Instances |-> <<>>]
        /\ rank_pos = [i \in Instances |-> 0]
        /\ revision_queue = [i \in Instances |-> <<>>]
        /\ metadata = [i \in Instances |-> None]
        /\ last_call = [i \in Instances |-> NoCall]
        /\ calls = [i \in Instances |-> 0]
        /\ pc = [i \in Instances |-> "planned"]

NextRank ==
    \E i \in Instances :
        \/ Rank(i)
        \/ AllocateNext(i)

SpecRank == InitRank /\ [][NextRank]_vars

\* generate() for one concept-heavy topic and no event: every pair of
\* <<difficulty, confidence>> below, on estimated hours from 0.1 to 4
TopicSweepScores == {<<8, 2>>, <<5, 5>>, <<3, 2>>, <<8, 8>>, <<0, 10>>}

TopicSweepHours == {10, 50, 200, 400}

InitTopic ==
    \E sc \in TopicSweepScores, h \in TopicSweepHours, pr \in PreferenceChoices :
        InitFrom(0, <<>>,
                 <<[subject |-> "Math", topic |-> "Algebra",
                    difficulty_score |-> sc[1], confidence_score |-> sc[2],
                    estimated_hours |-> h, is_concept_heavy |-> TRUE]>>,
                 DefaultAvailability, pr)

SpecTopic == InitTopic /\ [][Next]_vars

\* generate() run to its end on inputs that cannot be served: no study
\* time on any day, an exam of 10 hours whose date passed 10 days ago
StressEventChoices ==
    { [event_type |-> "exam", subject |-> "Math", topic |-> Some("Calculus"),
       offset |-> -10, priority_level |-> 9, estimated_effort_hours |-> 1000],
      [event_type |-> "assignment", subject |-> "Math", topic |-> Some("Algebra"),
       offset |-> -2, priority_level |-> 5, estimated_effort_hours |-> 50],
      [event_type |-> "exam", subject |-> "Physics", topic |-> None,
       offset |-> 4, priority_level |-> 8, estimated_effort_hours |-> 300] }

StressAvailabilityChoices ==
    { [weekday_hours |-> 0, weekend_hours |-> 0, start_time |-> 9 * 60,
       end_time |-> 21 * 60, excluded_offsets |-> {}],
      [weekday_hours |-> 50, weekend_hours |-> 0, start_time |-> 9 * 60,
       end_time |-> 10 * 60, excluded_offsets |-> {1}],
      DefaultAvailability }

InitStress ==
    \E cd \in CurrentDates,
       ev \in SeqsUpTo(StressEventChoices, MaxEventsSmall),
       n_topics \in 0..MaxTopicsSmall,
       av \in StressAvailabilityChoices :
        InitFrom(cd, ev,
                 [k \in 1..n_topics |->
                     [subject |-> "Math", topic |-> "Algebra", difficulty_score |-> 8,
                      confidence_score |-> 2, estimated_hours |-> 100,
                      is_concept_heavy |-> TRUE]],
                 av, DefaultPreferences)

\* generate() is one sequential call: a step that can be taken is taken
SpecStress == InitStress /\ [][Next]_vars /\ WF_vars(Next)

(***************************************************************************)
(* Construction from raw inputs.  A date string is its separator and its   *)
(* three numbers, written zero-padded; day 0 is 2024-01-01, a Monday.      *)
(***************************************************************************)
\* an unparseable string taken for today, as a missing date is
parse_date_lenient(date_input) == Some(0)

\* DateTimeUtils.parse_date on a string: the date of the first format that
\* matches (ISO, then the five strptime formats in order), None for the
\* ValueError raised when no format matches
parse_date(date_input) ==
    LET formats == << [sep |-> "-", year |-> 1, month |-> 2, day |-> 3],
                      [sep |-> "/", year |-> 1, month |-> 2, day |-> 3],
                      [sep |-> "-", year |-> 3, month |-> 2, day |-> 1],
                      [sep |-> "/", year |-> 3, month |-> 2, day |-> 1],
                      [sep |-> "-", year |-> 3, month |-> 1, day |-> 2],
                      [sep |-> "/", year |-> 3, month |-> 1, day |-> 2] >>
        is_leap(y) == y % 4 = 0 /\ (y % 100 # 0 \/ y % 400 = 0)
        days_in_month(y, m) ==
            IF m = 2 THEN (IF is_leap(y) THEN 29 ELSE 28)
            ELSE IF m \in {4, 6, 9, 11} THEN 30 ELSE 31
        days_before_month(y, m) == SumSeq([k \in 1..(m - 1) |-> days_in_month(y, k)])
        leap_years_before(y) == (y - 1) \div 4 - (y - 1) \div 100 + (y - 1) \div 400
        days_before_year(y) ==
            365 * (y - 2024) + leap_years_before(y) - leap_years_before(2024)
        matches(fmt) ==
            /\ date_input.sep = fmt.sep
            /\ date_input.fields[fmt.year] \in 1000..9999
            /\ date_input.fields[fmt.month] \in 1..12
            /\ date_input.fields[fmt.day] \in
                  1..days_in_month(date_input.fields[fmt.year],
                                   date_input.fields[fmt.month])
        to_date(fmt) ==
            days_before_year(date_input.fields[fmt.year])
              + days_before_month(date_input.fields[fmt.year],
                                  date_input.fields[fmt.month])
              + date_input.fields[fmt.day] - 1
        matching == {n \in DOMAIN formats : matches(formats[n])}
    IN  IF matching = {} THEN None ELSE Some(to_date(formats[SetMin(matching)]))

\* __init__: the inputs are normalized in the order events, availability,
\* preferences, topics.  parse_date on an event date, FixedEvent.__post_init__
\* and StudyPreferences.__post_init__ raise ValueError, and then nothing of
\* the scheduler is assigned; otherwise the normalized inputs are stored
Construct(i) ==
    /\ pc[i] = "new"
    /\ IF \/ \E k \in DOMAIN events[i] :
                \/ parse_date(events[i][k].target_date) = None
                \/ ~ (1 <= clamp(events[i][k].priority_level, 1, 10)
                        /\ clamp(events[i][k].priority_level, 1, 10) <= 10)
                \/ events[i][k].estimated_effort_hours < 0
          \/ preferences[i].session_length_minutes < 15
          \/ preferences[i].break_length_minutes < 0
          \/ ~ (10 <= clamp(preferences[i].buffer_percentage, 10, 30)
                  /\ clamp(preferences[i].buffer_percentage, 10, 30) <= 30)
       THEN /\ pc' = [pc EXCEPT ![i] = "raised"]
            /\ UNCHANGED inputs
       ELSE /\ events' = [events EXCEPT ![i] = normalize_events(
                  [k \in DOMAIN @ |->
                      [event_type             |-> @[k].event_type,
                       subject                |-> @[k].subject,
                       topic                  |-> @[k].topic,
                       offset                 |-> parse_date(@[k].target_date)[1]
                                                     - current_date[i],
                       priority_level         |-> @[k].priority_level,
                       estimated_effort_hours |-> @[k].estimated_effort_hours]],
                  current_date[i])]
            /\ availability' = [availability EXCEPT ![i] =
                                   normalize_availability(@, current_date[i])]
            /\ preferences' = [preferences EXCEPT ![i] = normalize_preferences(@)]
            /\ topics' = [topics EXCEPT ![i] = normalize_topics(@)]
            /\ pc' = [pc EXCEPT ![i] = "created"]
            /\ UNCHANGED current_date
    /\ UNCHANGED <<task_counter, tasks, warnings, schedule, end_date, capacity_map,
                   ranked, rank_pos, revision_queue, metadata, last_call, calls>>

\* the arguments of TimetableScheduler(...): one exam written with each date
\* string, or with negative effort; preferences, two of them invalid
InitConstruct ==
    \E date_text \in { [sep |-> "-", fields |-> <<2024, 1, 8>>],
                       [sep |-> "/", fields |-> <<8, 1, 2024>>],
                       [sep |-> "-", fields |-> <<1, 13, 2024>>],
                       [sep |-> "-", fields |-> <<3, 1, 2024>>],
                       [sep |-> "-", fields |-> <<2024, 13, 45>>],
                       [sep |-> ".", fields |-> <<8, 1, 2024>>] },
       effort \in {-100, 0, 300},
       n_events \in 0..MaxEventsSmall,
       tp \in SeqsUpTo(TopicChoices, MaxTopicsSmall),
       pr \in PreferenceChoices \cup
                { [DefaultPreferences EXCEPT !.session_length_minutes = 10],
                  [DefaultPreferences EXCEPT !.session_length_minutes = 15],
                  [DefaultPreferences EXCEPT !.break_length_minutes = -5] } :
        /\ current_date = [i \in Instances |-> 0]
        /\ events = [i \in Instances |->
              [k \in 1..n_events |->
                  [event_type |-> "exam", subject |-> "Math",
                   topic |-> Some("Calculus"), target_date |-> date_text,
                   priority_level |-> 9, estimated_effort_hours |-> effort]]]
        /\ availability = [i \in Instances |-> DefaultAvailability]
        /\ preferences = [i \in Instances |-> pr]
        /\ topics = [i \in Instances |-> tp]
        /\ task_counter = [i \in Instances |-> 0]
        /\ tasks = [i \in Instances |-> <<>>]
        /\ warnings = [i \in Instances |-> <<>>]
        /\ schedule = [i \in Instances |-> <<>>]
        /\ end_date = [i \in Instances |-> 0]
        /\ capacity_map = [i \in Instances |-> <<>>]
        /\ ranked = [i \in Instances |-> <<>>]
        /\ rank_pos = [i \in Instances |-> 0]
        /\ revision_queue = [i \in Instances |-> <<>>]
        /\ metadata = [i \in Instances |-> None]
        /\ last_call = [i \in Instances |-> NoCall]
        /\ calls = [i \in Instances |-> 0]
        /\ pc = [i \in Instances |-> "new"]

\* TimetableScheduler(...) and then generate()
SpecConstruct == InitConstruct /\ [][(\E i \in Instances : Construct(i)) \/ Next]_vars

\* two schedulers built from the same inputs
InitInterleaved ==
    \E ev \in SeqsUpTo(EventChoices, MaxEventsSmall),
       n_topics \in 0..MaxTopicsSmall,
       av \in {DefaultAvailability, [DefaultAvailability EXCEPT !.weekday_hours = 50]} :
        /\ current_date = [i \in TwoInstances |-> 0]
        /\ events = [i \in TwoInstances |-> normalize_events(ev, 0)]
        /\ availability = [i \in TwoInstances |-> normalize_availability(av, 0)]
        /\ preferences = [i \in TwoInstances |-> normalize_preferences(DefaultPreferences)]
        /\ topics = [i \in TwoInstances |-> normalize_topics(
              [k \in 1..n_topics |->
                  [subject |-> "Math", topic |-> "Algebra", difficulty_score |-> 8,
                   confidence_score |-> 2, estimated_hours |-> 100,
                   is_concept_heavy |-> TRUE]])]
        /\ task_counter = [i \in TwoInstances |-> 0]
        /\ tasks = [i \in TwoInstances |-> <<>>]
        /\ warnings = [i \in TwoInstances |-> <<>>]
        /\ schedule = [i \in TwoInstances |-> <<>>]
        /\ end_date = [i \in TwoInstances |-> 0]
        /\ capacity_map = [i \in TwoInstances |-> <<>>]
        /\ ranked = [i \in TwoInstances |-> <<>>]
        /\ rank_pos = [i \in TwoInstances |-> 0]
        /\ revision_queue = [i \in TwoInstances |-> <<>>]
        /\ metadata = [i \in TwoInstances |-> None]
        /\ last_call = [i \in TwoInstances |-> NoCall]
        /\ calls = [i \in TwoInstances |-> 0]
        /\ pc = [i \in TwoInstances |-> "created"]

\* the steps of the two generate() calls interleaved in every order, as two
\* threads would run them
SpecInterleaved ==
    InitInterleaved /\ [][\E i \in TwoInstances :
                        \/ Decompose(i)
                        \/ Plan(i)
                        \/ Rank(i)
                        \/ AllocateNext(i)
                        \/ StartRepetition(i)
                        \/ ReviseNext(i)
                        \/ CheckCompleteness(i)
                        \/ BuildOutput(i)]_vars

\* generate() called again on the same instance: the call starts from the
\* tasks, warnings, schedule and task counter the earlier call left
Regenerate(i) ==
    /\ pc[i] = "done"
    /\ calls[i] < MaxCalls
    /\ pc' = [pc EXCEPT ![i] = "created"]
    /\ calls' = [calls EXCEPT ![i] = @ + 1]
    /\ last_call' = [last_call EXCEPT ![i] = [NoCall EXCEPT !.op = "generate"]]
    /\ UNCHANGED <<inputs, task_counter, tasks, warnings, schedule, end_date,
                   capacity_map, ranked, rank_pos, revision_queue, metadata>>

\* generate() and then generate() again
SpecRegenerate ==
    InitAdapt /\ [][Next \/ (\E i \in Instances : Regenerate(i))]_vars

(***************************************************************************)
(* Properties.                                                             *)
(***************************************************************************)
SchedulerInstances == DOMAIN pc

Slots(i, d) == schedule[i][d].slots

SlotSubjects(i, d) == {Slots(i, d)[n].subject : n \in DOMAIN Slots(i, d)}

RawMinutes(i, d) == (get_hours_for_date(availability[i], d) * 60) \div 100

ScheduledAfterDeadline(task) ==
    /\ task.status = "scheduled"
    /\ task.scheduled_date # None
    /\ task.scheduled_date[1] > task.deadline

\* the ranked task _allocate_task is about to be called on
NextRanked(i) == tasks[i][ranked[i][rank_pos[i] + 1]]

\* the revision task _add_spaced_repetition is about to create and try
NextRevision(i) ==
    LET cand == Head(revision_queue[i])
    IN  create_revision_task(tasks[i][cand.source], cand.rev_date, cand.iteration,
                             task_counter[i])

\* C1: on every day of the schedule, in every state of generate(), the
\* day's total_study_minutes is at most the raw available minutes of the date
C1_StudyMinutesWithinDay ==
    \A i \in SchedulerInstances : \A d \in DOMAIN schedule[i] :
        schedule[i][d].total_study_minutes <= RawMinutes(i, d)

\* a day that holds study time refuses the next ranked task for lack of minutes
C1_Witness ==
    \E i \in SchedulerInstances :
        /\ pc[i] = "allocating"
        /\ rank_pos[i] < Len(ranked[i])
        /\ \E d \in DOMAIN capacity_map[i] :
              /\ d <= NextRanked(i).deadline
              /\ schedule[i][d].total_study_minutes > 0
              /\ capacity_map[i][d].available_minutes < NextRanked(i).required_minutes
              /\ NextRanked(i).required_minutes <= RawMinutes(i, d)

\* C2: on every day, in every state of generate(), the slots of the day
\* belong to at most max_subjects_per_day distinct subjects
C2_SubjectsWithinLimit ==
    \A i \in SchedulerInstances : \A d \in DOMAIN schedule[i] :
        Cardinality(SlotSubjects(i, d)) <= preferences[i].max_subjects_per_day

\* a day at its subject limit refuses a revision task of one more subject,
\* which nothing else keeps off that day
C2_Witness ==
    \E i \in SchedulerInstances :
        /\ pc[i] = "revising"
        /\ revision_queue[i] # <<>>
        /\ LET d == Head(revision_queue[i]).rev_date
               c == capacity_map[i][d]
           IN  /\ Cardinality(SlotSubjects(i, d)) = preferences[i].max_subjects_per_day
               /\ NextRevision(i).subject \notin SlotSubjects(i, d)
               /\ c.available_minutes >= NextRevision(i).required_minutes
               /\ c.sessions_used < c.max_sessions
               /\ c.last_topic # Some(NextRevision(i).topic)

\* C3: in every day's slot list, in every state of generate(), no two
\* consecutive slots have the same topic
C3_NoConsecutiveSameTopic ==
    \A i \in SchedulerInstances : \A d \in DOMAIN schedule[i] :
        \A n \in 1..(Len(Slots(i, d)) - 1) :
            Slots(i, d)[n].topic # Slots(i, d)[n + 1].topic

\* a revision task is about to be tried on a day whose last slot has its
\* topic, and nothing else keeps it off that day
C3_Witness ==
    \E i \in SchedulerInstances :
        /\ pc[i] = "revising"
        /\ revision_queue[i] # <<>>
        /\ LET d == Head(revision_queue[i]).rev_date
               c == capacity_map[i][d]
           IN  /\ Len(Slots(i, d)) >= 2
               /\ Slots(i, d)[Len(Slots(i, d))].topic = NextRevision(i).topic
               /\ c.available_minutes >= NextRevision(i).required_minutes
               /\ c.sessions_used < c.max_sessions
               /\ NextRevision(i).subject \in c.subjects_used

OtherStatuses(task_list) ==
    {k \in DOMAIN task_list : task_list[k].status \notin {"scheduled", "pending"}}

\* C4: in every output of generate(), every scheduled task has a
\* scheduled_date within [current_date, horizon_end + 3], and the tasks
\* split into the scheduled, the pending and those of another status
C4_ScheduledWithinHorizon ==
    \A i \in SchedulerInstances :
        pc[i] = "done" =>
            /\ \A k \in DOMAIN tasks[i] :
                  tasks[i][k].status = "scheduled" =>
                      /\ tasks[i][k].scheduled_date # None
                      /\ current_date[i] <= tasks[i][k].scheduled_date[1]
                      /\ tasks[i][k].scheduled_date[1] <= end_date[i] + 3
            /\ Len(tasks[i]) = CountStatus(tasks[i], "scheduled")
                                 + CountStatus(tasks[i], "pending")
                                 + Cardinality(OtherStatuses(tasks[i]))
            /\ metadata[i][1].scheduled_tasks = CountStatus(tasks[i], "scheduled")

\* an output with a task on the last day of the horizon, a task scheduled
\* past its deadline and a pending task
C4_Witness ==
    \E i \in SchedulerInstances :
        /\ pc[i] = "done"
        /\ \E k \in DOMAIN tasks[i] : tasks[i][k].scheduled_date = Some(end_date[i])
        /\ \E k \in DOMAIN tasks[i] : ScheduledAfterDeadline(tasks[i][k])
        /\ \E k \in DOMAIN tasks[i] : tasks[i][k].status = "pending"

PushedWarningFor(i, task) ==
    \E n \in DOMAIN warnings[i] :
        /\ warnings[i][n].message.kind = "pushed_past_deadline"
        /\ warnings[i][n].message.topic = task.topic
        /\ warnings[i][n].severity = "warning"
        /\ warnings[i][n].affected_tasks = <<task.task_id>>

\* C5: a task is scheduled after its deadline only if its priority is at
\* most 5, the date is at most 3 days after the deadline and a 'pushed past
\* deadline' warning of severity warning names it; a task of priority 6 or
\* more is never scheduled after its deadline: it is on time or pending
C5_OverflowOnlyLowPriority ==
    \A i \in SchedulerInstances : \A k \in DOMAIN tasks[i] :
        /\ ScheduledAfterDeadline(tasks[i][k]) =>
              /\ tasks[i][k].priority <= 5
              /\ tasks[i][k].scheduled_date[1] <= tasks[i][k].deadline + 3
              /\ PushedWarningFor(i, tasks[i][k])
        /\ tasks[i][k].priority >= 6 =>
              \/ tasks[i][k].status = "pending"
              \/ /\ tasks[i][k].status = "scheduled"
                 /\ tasks[i][k].scheduled_date # None
                 /\ tasks[i][k].scheduled_date[1] <= tasks[i][k].deadline

\* an output with a task pushed past its deadline, and a pending task of
\* priority 6 or more that a date past its deadline would still have taken
C5_Witness ==
    \E i \in SchedulerInstances :
        /\ pc[i] = "done"
        /\ \E k \in DOMAIN tasks[i] : ScheduledAfterDeadline(tasks[i][k])
        /\ \E k \in DOMAIN tasks[i] :
              /\ tasks[i][k].status = "pending"
              /\ tasks[i][k].priority >= 6
              /\ \E offset \in 1..3 :
                    Fits(capacity_map[i], tasks[i][k].deadline + offset, tasks[i][k],
                         preferences[i].max_subjects_per_day)

PendingTasks(i) == {k \in DOMAIN tasks[i] : tasks[i][k].status = "pending"}

PendingWithDeadline(i, deadline) ==
    {k \in PendingTasks(i) : tasks[i][k].deadline = deadline}

UnscheduledWarnings(i) ==
    {n \in DOMAIN warnings[i] : warnings[i][n].message.kind = "could_not_schedule"}

\* C6: after generate(), there is exactly one 'could not schedule' warning
\* per distinct deadline of the pending tasks, dated at that deadline and
\* listing exactly the pending tasks of that deadline; it is critical if one
\* of them has priority 8 or more and a warning otherwise
C6_OneWarningPerPendingDeadline ==
    \A i \in SchedulerInstances :
        pc[i] \in {"checked", "done"} =>
            LET deadlines == {tasks[i][k].deadline : k \in PendingTasks(i)}
            IN  /\ Cardinality(UnscheduledWarnings(i)) = Cardinality(deadlines)
                /\ \A dl \in deadlines :
                      \E n \in UnscheduledWarnings(i) :
                          LET w     == warnings[i][n]
                              group == PendingWithDeadline(i, dl)
                          IN  /\ w.date = dl
                              /\ Len(w.affected_tasks) = Cardinality(group)
                              /\ Range(w.affected_tasks)
                                   = {tasks[i][k].task_id : k \in group}
                              /\ w.message.count = Cardinality(group)
                              /\ w.severity =
                                   IF \E k \in group : tasks[i][k].priority >= 8
                                   THEN "critical" ELSE "warning"

\* an output with a critical and a non-critical 'could not schedule' warning,
\* the critical one for a group whose highest priority is exactly 8
C6_Witness ==
    \E i \in SchedulerInstances :
        /\ pc[i] = "done"
        /\ \E n \in UnscheduledWarnings(i) : warnings[i][n].severity = "warning"
        /\ \E n \in UnscheduledWarnings(i) :
              /\ warnings[i][n].severity = "critical"
              /\ Len(warnings[i][n].affected_tasks) >= 2
              /\ \A k \in PendingWithDeadline(i, warnings[i][n].date) :
                    tasks[i][k].priority <= 8

C8_DecomposeEventExact ==
    \A i \in SchedulerInstances :
        (pc[i] = "decomposed" /\ Len(events[i]) = 1 /\ topics[i] = <<>>) =>
            LET T == (events[i][1].estimated_effort_hours * 60) \div 100
                L == preferences[i].session_length_minutes
                n == Len(tasks[i])
            IN  /\ n >= 1
                /\ n * L >= T
                /\ n > 1 => (n - 1) * L < T
                /\ SumSeq([k \in 1..n |-> tasks[i][k].required_minutes]) = T
                /\ \A k \in 1..n :
                      tasks[i][k].required_minutes
                          = (T \div n) + (IF k <= T % n THEN 1 ELSE 0)

\* 600 minutes at session length 45: 14 tasks, the first 12 of 43 minutes
C8_Witness ==
    \E i \in SchedulerInstances :
        /\ pc[i] = "decomposed"
        /\ events[i][1].estimated_effort_hours = 1000
        /\ preferences[i].session_length_minutes = 45
        /\ Len(tasks[i]) = 14
        /\ tasks[i][12].required_minutes = 43
        /\ tasks[i][13].required_minutes = 42

IsConceptHeavyTopicId(i, topic_id) ==
    \E n \in DOMAIN topics[i] :
        topics[i][n].id = topic_id /\ topics[i][n].is_concept_heavy

\* C9: every revision task of a generate() run has as parent the
\* earliest-scheduled initial-learning task of a concept-heavy topic,
\* scheduled on a day D, and is itself scheduled on D+1, D+3 or D+7, not
\* after horizon_end, no two revisions of a parent on the same date
C9_RevisionsFollowEarliestTask ==
    \A i \in SchedulerInstances : \A r \in DOMAIN tasks[i] :
        tasks[i][r].task_type = "revision" =>
            /\ tasks[i][r].parent_task_id # None
            /\ Cardinality({p \in DOMAIN tasks[i] :
                   tasks[i][p].task_id = tasks[i][r].parent_task_id[1]}) = 1
            /\ \A p \in DOMAIN tasks[i] :
                  tasks[i][p].task_id = tasks[i][r].parent_task_id[1] =>
                      /\ tasks[i][p].task_type = "initial_learning"
                      /\ tasks[i][p].status = "scheduled"
                      /\ tasks[i][p].source_event_id = None
                      /\ tasks[i][p].source_topic_id # None
                      /\ IsConceptHeavyTopicId(i, tasks[i][p].source_topic_id[1])
                      /\ \A q \in DOMAIN tasks[i] :
                            (/\ tasks[i][q].task_type = "initial_learning"
                             /\ tasks[i][q].status = "scheduled"
                             /\ tasks[i][q].source_topic_id = tasks[i][p].source_topic_id)
                            => tasks[i][p].scheduled_date[1] <= tasks[i][q].scheduled_date[1]
                      /\ tasks[i][r].status = "scheduled"
                      /\ tasks[i][r].scheduled_date[1] - tasks[i][p].scheduled_date[1]
                            \in {1, 3, 7}
                      /\ tasks[i][r].scheduled_date[1] <= end_date[i]
                      /\ \A r2 \in DOMAIN tasks[i] :
                            (/\ r2 # r
                             /\ tasks[i][r2].task_type = "revision"
                             /\ tasks[i][r2].parent_task_id = tasks[i][r].parent_task_id)
                            => tasks[i][r2].scheduled_date # tasks[i][r].scheduled_date

\* an output in which a topic has initial-learning tasks on several dates,
\* and the earliest of them has revisions at two offsets, one of them 7
C9_Witness ==
    \E i \in SchedulerInstances :
        /\ pc[i] = "done"
        /\ \E p, q, r1, r2 \in DOMAIN tasks[i] :
              /\ tasks[i][p].task_type = "initial_learning"
              /\ tasks[i][p].status = "scheduled"
              /\ tasks[i][q].task_type = "initial_learning"
              /\ tasks[i][q].source_topic_id = tasks[i][p].source_topic_id
              /\ tasks[i][q].status = "scheduled"
              /\ tasks[i][q].scheduled_date[1] > tasks[i][p].scheduled_date[1]
              /\ tasks[i][r1].task_type = "revision"
              /\ tasks[i][r2].task_type = "revision"
              /\ tasks[i][r1].parent_task_id = Some(tasks[i][p].task_id)
              /\ tasks[i][r2].parent_task_id = Some(tasks[i][p].task_id)
              /\ tasks[i][r1].scheduled_date[1] = tasks[i][p].scheduled_date[1] + 7
              /\ tasks[i][r2].scheduled_date[1] < tasks[i][r1].scheduled_date[1]

\* C10: after update_confidence(timetable, topic_id, c), every task of the
\* timetable whose source_topic_id is topic_id has confidence_score
\* clamp(c, 0, 1)
C10_AllTopicTasksUpdated ==
    \A i \in SchedulerInstances :
        last_call[i].op = "update_confidence" =>
            \A k \in DOMAIN tasks[i] :
                tasks[i][k].source_topic_id = Some(last_call[i].topic_id) =>
                    tasks[i][k].confidence_score
                        = Max(0, Min(10, last_call[i].new_confidence))

\* the tasks of the topic whose confidence is more than 0.2 above the
\* clamped new confidence c
TopicTasksAbove(task_list, topic_id, c) ==
    {k \in DOMAIN task_list :
        /\ task_list[k].source_topic_id = Some(topic_id)
        /\ task_list[k].confidence_score - c > 2}

\* C11: update_confidence returns exactly one revision task if the new
\* confidence is more than 0.2 below the previous confidence of a task of
\* the topic and an empty list otherwise; the task returned has max(15, half)
\* the minutes and priority min(10, p + 2) of that task; the call leaves the
\* length of the task list, the schedule with its slots and the warnings
\* unchanged
C11_UpdateConfidenceReturn ==
    [][\A i \in SchedulerInstances :
          (calls'[i] = calls[i] + 1 /\ last_call'[i].op = "update_confidence") =>
              LET c        == Max(0, Min(10, last_call'[i].new_confidence))
                  above    == TopicTasksAbove(tasks[i], last_call'[i].topic_id, c)
                  returned == last_call'[i].returned
              IN  /\ above = {} => returned = <<>>
                  /\ above # {} =>
                        /\ Len(returned) = 1
                        /\ returned[1].task_type = "revision"
                        /\ \E k \in above :
                              /\ returned[1].parent_task_id = Some(tasks[i][k].task_id)
                              /\ returned[1].required_minutes
                                    = Max(15, tasks[i][k].required_minutes \div 2)
                              /\ returned[1].priority = Min(10, tasks[i][k].priority + 2)
                  /\ Len(tasks'[i]) = Len(tasks[i])
                  /\ \A k \in DOMAIN tasks[i] :
                        tasks'[i][k].task_id = tasks[i][k].task_id
                  /\ schedule'[i] = schedule[i]
                  /\ warnings'[i] = warnings[i]]_vars

\* a call has returned a revision task of more than 15 minutes, on a
\* timetable with slots and warnings
C11_Witness ==
    \E i \in SchedulerInstances :
        /\ last_call[i].op = "update_confidence"
        /\ Len(last_call[i].returned) = 1
        /\ last_call[i].returned[1].required_minutes > 15
        /\ warnings[i] # <<>>
        /\ \E d \in DOMAIN schedule[i] : Slots(i, d) # <<>>

TasksWithId(task_list, task_id) ==
    {k \in DOMAIN task_list : task_list[k].task_id = task_id}

\* C12: handle_missed_session(task_id) for an existing task sets that task's
\* status to missed, appends exactly one clone (same subject, topic, deadline
\* and minutes, priority min(10, p + 1), pending, no scheduled date, parent
\* the original id) and exactly one warning naming both tasks, and leaves
\* every DaySchedule and every other task unchanged; if no task has the id
\* nothing changes
C12_MissedSessionEffect ==
    [][\A i \in SchedulerInstances :
          (calls'[i] = calls[i] + 1 /\ last_call'[i].op = "handle_missed_session") =>
              LET task_id == last_call'[i].task_id
                  found   == TasksWithId(tasks[i], task_id)
                  n       == Len(tasks[i])
                  w       == Len(warnings[i])
              IN  /\ schedule'[i] = schedule[i]
                  /\ found = {} => tasks'[i] = tasks[i] /\ warnings'[i] = warnings[i]
                  /\ found # {} =>
                        /\ Len(tasks'[i]) = n + 1
                        /\ \E k \in found :
                              /\ tasks'[i][k] = [tasks[i][k] EXCEPT !.status = "missed"]
                              /\ \A j \in (1..n) \ {k} : tasks'[i][j] = tasks[i][j]
                              /\ tasks'[i][n + 1].subject = tasks[i][k].subject
                              /\ tasks'[i][n + 1].topic = tasks[i][k].topic
                              /\ tasks'[i][n + 1].deadline = tasks[i][k].deadline
                              /\ tasks'[i][n + 1].required_minutes
                                    = tasks[i][k].required_minutes
                              /\ tasks'[i][n + 1].priority
                                    = IF tasks[i][k].priority >= 10 THEN 10
                                      ELSE tasks[i][k].priority + 1
                        /\ tasks'[i][n + 1].status = "pending"
                        /\ tasks'[i][n + 1].scheduled_date = None
                        /\ tasks'[i][n + 1].parent_task_id = Some(task_id)
                        /\ Len(warnings'[i]) = w + 1
                        /\ \A j \in 1..w : warnings'[i][j] = warnings[i][j]
                        /\ warnings'[i][w + 1].affected_tasks
                              = <<task_id, tasks'[i][n + 1].task_id>>]_vars

\* a call has marked a task missed whose slot is still in its day, and the
\* clone, one priority higher, is the last task of the list
C12_Witness ==
    \E i \in SchedulerInstances :
        /\ last_call[i].op = "handle_missed_session"
        /\ \E k \in DOMAIN tasks[i] :
              /\ tasks[i][k].status = "missed"
              /\ tasks[i][k].scheduled_date # None
              /\ \E n \in DOMAIN Slots(i, tasks[i][k].scheduled_date[1]) :
                    Slots(i, tasks[i][k].scheduled_date[1])[n].task_id
                        = tasks[i][k].task_id
              /\ tasks[i][Len(tasks[i])].parent_task_id = Some(tasks[i][k].task_id)
              /\ tasks[i][Len(tasks[i])].priority = tasks[i][k].priority + 1
              /\ tasks[i][Len(tasks[i])].status = "pending"
        /\ warnings[i] # <<>>
        /\ warnings[i][Len(warnings[i])].message.kind = "missed"

\* C13: after generate() and any sequence of handle_missed_session calls,
\* the task ids of the timetable are pairwise distinct
C13_TaskIdsDistinct ==
    \A i \in SchedulerInstances :
        \A k1, k2 \in DOMAIN tasks[i] :
            k1 # k2 => tasks[i][k1].task_id # tasks[i][k2].task_id

\* C14: the status of a task changes only from pending to scheduled and from
\* scheduled to completed or missed
C14_StatusLifecycle ==
    [][\A i \in SchedulerInstances :
          \A k \in DOMAIN tasks[i] \cap DOMAIN tasks'[i] :
              tasks'[i][k].status # tasks[i][k].status =>
                  \/ /\ tasks[i][k].status = "pending"
                     /\ tasks'[i][k].status = "scheduled"
                  \/ /\ tasks[i][k].status = "scheduled"
                     /\ tasks'[i][k].status \in {"completed", "missed"}]_vars

\* the tasks placed on day d
TasksOnDay(i, d) ==
    {k \in DOMAIN tasks[i] :
        tasks[i][k].status = "scheduled" /\ tasks[i][k].scheduled_date = Some(d)}

RECURSIVE SumMinutes(_, _)
SumMinutes(task_list, S) ==
    IF S = {} THEN 0
    ELSE LET k == CHOOSE x \in S : TRUE
         IN  task_list[k].required_minutes + SumMinutes(task_list, S \ {k})

\* C15: on every day, in every state of generate(), total_study_minutes is
\* the sum of the required minutes of the tasks scheduled on that day and
\* subjects_covered is the set of their subjects
C15_TotalsMatchTasks ==
    \A i \in SchedulerInstances : \A d \in DOMAIN schedule[i] :
        /\ schedule[i][d].total_study_minutes = SumMinutes(tasks[i], TasksOnDay(i, d))
        /\ schedule[i][d].subjects_covered
              = {tasks[i][k].subject : k \in TasksOnDay(i, d)}

\* raw minutes of the day less the reserve trunc(raw minutes x buffer)
MinutesAfterReserve(i, d) ==
    RawMinutes(i, d) - ((RawMinutes(i, d) * preferences[i].buffer_percentage) \div 100)

\* C16: on every day, in every state of generate(), the required minutes of
\* the tasks placed sum to at most raw minutes - trunc(raw minutes x
\* buffer_percentage), and available_minutes is never negative
C16_ReserveNeverScheduled ==
    \A i \in SchedulerInstances :
        /\ \A d \in DOMAIN schedule[i] :
              SumMinutes(tasks[i], TasksOnDay(i, d)) <= MinutesAfterReserve(i, d)
        /\ \A d \in DOMAIN capacity_map[i] :
              /\ capacity_map[i][d].available_minutes >= 0
              /\ d \in DOMAIN schedule[i] =>
                    capacity_map[i][d].available_minutes
                        = MinutesAfterReserve(i, d) - SumMinutes(tasks[i], TasksOnDay(i, d))

\* a day with a positive reserve refuses the next ranked task, which the raw
\* minutes left would hold and which nothing but the minutes keeps off the day
C16_Witness ==
    \E i \in SchedulerInstances :
        /\ pc[i] = "allocating"
        /\ rank_pos[i] < Len(ranked[i])
        /\ \E d \in DOMAIN capacity_map[i] :
              LET c == capacity_map[i][d]
              IN  /\ d <= NextRanked(i).deadline
                  /\ MinutesAfterReserve(i, d) < RawMinutes(i, d)
                  /\ TasksOnDay(i, d) # {}
                  /\ c.available_minutes < NextRanked(i).required_minutes
                  /\ NextRanked(i).required_minutes
                        <= RawMinutes(i, d) - SumMinutes(tasks[i], TasksOnDay(i, d))
                  /\ c.sessions_used < c.max_sessions
                  /\ c.last_topic # Some(NextRanked(i).topic)
                  /\ NextRanked(i).subject \in c.subjects_used

\* C17: in every state of generate(), the sessions placed on any one day,
\* main tasks and revision tasks together, are at most max_sessions_per_day
C17_SessionsWithinLimit ==
    \A i \in SchedulerInstances : \A d \in DOMAIN schedule[i] :
        /\ Len(Slots(i, d)) <= preferences[i].max_sessions_per_day
        /\ Cardinality(TasksOnDay(i, d)) <= preferences[i].max_sessions_per_day

\* an output in which a day holds max_sessions_per_day sessions, one of
\* them a revision, and a task is left pending that nothing but the session
\* limit kept off a day before its deadline
C17_Witness ==
    \E i \in SchedulerInstances :
        /\ pc[i] = "done"
        /\ \E d \in DOMAIN schedule[i] :
              /\ Len(Slots(i, d)) = preferences[i].max_sessions_per_day
              /\ \E n \in DOMAIN Slots(i, d) : Slots(i, d)[n].task_type = "revision"
        /\ \E k \in DOMAIN tasks[i], d \in DOMAIN capacity_map[i] :
              LET c == capacity_map[i][d]
              IN  /\ tasks[i][k].status = "pending"
                  /\ d <= tasks[i][k].deadline
                  /\ c.sessions_used = c.max_sessions
                  /\ c.available_minutes >= tasks[i][k].required_minutes
                  /\ c.last_topic # Some(tasks[i][k].topic)
                  /\ tasks[i][k].subject \in c.subjects_used

\* C18: generate() creates one DaySchedule for every date from current_date
\* to horizon_end and for no other date, horizon_end being the latest event
\* deadline + 3 days, or current_date + 30 days without events; with no
\* events and no topics the schedule spans current_date..current_date + 30,
\* total_tasks is 0 and there are no warnings
C18_ScheduleSpansHorizon ==
    \A i \in SchedulerInstances :
        pc[i] \in {"planned", "allocating", "revising", "checked", "done"} =>
            LET horizon_end ==
                    IF Len(events[i]) = 0 THEN current_date[i] + 30
                    ELSE CHOOSE h \in {events[i][k].target_date + 3 : k \in DOMAIN events[i]} :
                           \A k \in DOMAIN events[i] : events[i][k].target_date + 3 <= h
            IN  /\ end_date[i] = horizon_end
                /\ DOMAIN schedule[i] = current_date[i]..horizon_end
                /\ pc[i] = "done" => metadata[i][1].horizon_end = horizon_end
                /\ (pc[i] = "done" /\ Len(events[i]) = 0 /\ Len(topics[i]) = 0) =>
                      /\ DOMAIN schedule[i] = current_date[i]..(current_date[i] + 30)
                      /\ metadata[i][1].total_tasks = 0
                      /\ tasks[i] = <<>>
                      /\ warnings[i] = <<>>

\* an output for two events, the first of them with the earlier deadline,
\* with a task scheduled on the last day of the horizon
C18_Witness ==
    \E i \in SchedulerInstances :
        /\ pc[i] = "done"
        /\ Len(events[i]) = 2
        /\ events[i][1].target_date < events[i][2].target_date
        /\ end_date[i] = events[i][2].target_date + 3
        /\ Slots(i, end_date[i]) # <<>>

\* C19: for one exam (Math, priority 9, 5 hours, deadline current_date + 7),
\* availability 4h weekday / 6h weekend, session length 45 and no topics, on
\* every current_date: total_events is 1, total_tasks is 7, the required
\* minutes of the 7 tasks sum to 300, and all 7 are scheduled no later than
\* deadline + 3
C19_OneExamScenario ==
    \A i \in SchedulerInstances :
        pc[i] = "done" =>
            /\ metadata[i][1].total_events = 1
            /\ metadata[i][1].total_tasks = 7
            /\ Len(tasks[i]) = 7
            /\ SumMinutes(tasks[i], DOMAIN tasks[i]) = 300
            /\ \A k \in DOMAIN tasks[i] :
                  /\ tasks[i][k].status = "scheduled"
                  /\ tasks[i][k].scheduled_date # None
                  /\ tasks[i][k].scheduled_date[1] <= current_date[i] + 7 + 3

\* the output of a run that starts on a Saturday: 7 tasks on 7 days
C19_Witness ==
    \E i \in SchedulerInstances :
        /\ pc[i] = "done"
        /\ weekday(current_date[i]) = 5
        /\ events[i][1].priority_level = 9
        /\ events[i][1].target_date = current_date[i] + 7
        /\ metadata[i][1].scheduled_tasks = 7
        /\ Cardinality({tasks[i][k].scheduled_date : k \in DOMAIN tasks[i]}) = 7

\* the score rank_tasks gives task k of instance i
ScoreOf(i, k) ==
    calculate_score(tasks[i][k], current_date[i],
                    days_between(current_date[i], end_date[i]))

RankedFirst(i, k) == ranked[i] # <<>> /\ ranked[i][1] = k

\* tasks a and b agree on every field but the id, priority and confidence
SameButPriorityConfidence(a, b) ==
    [a EXCEPT !.task_id = b.task_id, !.priority = b.priority,
              !.confidence_score = b.confidence_score] = b

\* C20: of two tasks equal in every field but priority, the one of higher
\* priority never has the lower score; of two tasks equal in every field
\* but confidence_score, the one of lower confidence never has the lower
\* score; rank_tasks never puts the task of lower score first
C20_ScoreMonotone ==
    \A i \in SchedulerInstances :
        (pc[i] = "allocating" /\ Len(tasks[i]) = 2) =>
            \A x, y \in {1, 2} :
              SameButPriorityConfidence(tasks[i][x], tasks[i][y]) =>
                /\ (/\ tasks[i][x].priority > tasks[i][y].priority
                    /\ tasks[i][x].confidence_score = tasks[i][y].confidence_score)
                   => ScoreOf(i, x) >= ScoreOf(i, y)
                /\ (/\ tasks[i][x].confidence_score < tasks[i][y].confidence_score
                    /\ tasks[i][x].priority = tasks[i][y].priority)
                   => ScoreOf(i, x) >= ScoreOf(i, y)
                /\ RankedFirst(i, x) => ScoreOf(i, x) >= ScoreOf(i, y)

\* rank_tasks has put the second task first: it has the lower confidence
\* and the strictly higher score
C20_Witness ==
    \E i \in SchedulerInstances :
        /\ pc[i] = "allocating"
        /\ Len(tasks[i]) = 2
        /\ SameButPriorityConfidence(tasks[i][1], tasks[i][2])
        /\ tasks[i][2].priority = tasks[i][1].priority
        /\ tasks[i][2].confidence_score < tasks[i][1].confidence_score
        /\ tasks[i][1].confidence_score <= 10
        /\ tasks[i][2].confidence_score >= 0
        /\ ScoreOf(i, 2) > ScoreOf(i, 1)
        /\ ranked[i] = <<2, 1>>

\* the planning horizon generate() hands to the scorer
HorizonDays(i) == days_between(current_date[i], end_date[i])

Overdue(i, k) == tasks[i][k].deadline <= current_date[i]

\* C21: for every task whose deadline is before or on current_date, on
\* every planning horizon, zero and negative ones included, the deadline
\* component is exactly 1.0 and the score is the weighted sum with that
\* component; rank_tasks puts no such task after a task that differs from
\* it in the deadline only
C21_OverdueDeadlineScore ==
    \A i \in SchedulerInstances :
        pc[i] = "allocating" =>
            \A k \in DOMAIN tasks[i] :
                Overdue(i, k) =>
                    /\ calculate_deadline_component(
                           days_between(current_date[i], tasks[i][k].deadline),
                           HorizonDays(i)) = 1000
                    /\ ScoreOf(i, k)
                          = clamp(calculate_priority_component(tasks[i][k].priority) * 250
                                + calculate_difficulty_component(tasks[i][k].difficulty_score) * 150
                                + 1000 * 350
                                + calculate_confidence_component(tasks[i][k].confidence_score) * 150
                                + calculate_type_component(tasks[i][k].task_type) * 100,
                              0, 1000000)
                    /\ \A a, b \in DOMAIN ranked[i] :
                          (/\ ranked[i][b] = k
                           /\ a < b
                           /\ ~Overdue(i, ranked[i][a]))
                          => tasks[i][ranked[i][a]].priority > tasks[i][k].priority

\* on a negative horizon, a task whose deadline has passed is ranked before
\* a task of the same priority whose deadline is still to come
C21_Witness ==
    \E i \in SchedulerInstances :
        /\ pc[i] = "allocating"
        /\ HorizonDays(i) < 0
        /\ \E a, b \in DOMAIN ranked[i] :
              /\ a < b
              /\ ranked[i][a] > ranked[i][b]
              /\ tasks[i][ranked[i][a]].deadline < current_date[i]
              /\ tasks[i][ranked[i][b]].deadline > current_date[i]
              /\ tasks[i][ranked[i][a]].priority = tasks[i][ranked[i][b]].priority
              /\ ScoreOf(i, ranked[i][a]) > ScoreOf(i, ranked[i][b])

\* ranked_tasks is in the order of the key (-score, deadline), equal keys
\* in the order of the task list
InRankOrder(i) ==
    \A a, b \in DOMAIN ranked[i] :
        a < b =>
            LET x == ranked[i][a]
                y == ranked[i][b]
            IN  /\ ScoreOf(i, x) >= ScoreOf(i, y)
                /\ ScoreOf(i, x) = ScoreOf(i, y) =>
                      tasks[i][x].deadline <= tasks[i][y].deadline
                /\ (/\ ScoreOf(i, x) = ScoreOf(i, y)
                    /\ tasks[i][x].deadline = tasks[i][y].deadline) => x < y

\* C22: rank_tasks returns a permutation of its input in descending order
\* of score, equal scores in ascending order of deadline, tasks equal in
\* both in their input order; the allocation loop takes the tasks in exactly
\* this order, one per turn
C22_RankOrder ==
    [][\A i \in SchedulerInstances :
          /\ pc'[i] = "allocating" =>
                /\ Len(ranked'[i]) = Len(tasks'[i])
                /\ Range(ranked'[i]) = DOMAIN tasks'[i]
                /\ InRankOrder(i)'
          /\ (pc[i] = "allocating" /\ rank_pos'[i] = rank_pos[i] + 1) =>
                /\ ranked'[i] = ranked[i]
                /\ \A k \in DOMAIN tasks[i] :
                      k # ranked[i][rank_pos[i] + 1] => tasks'[i][k] = tasks[i][k]
                /\ \A n \in 1..rank_pos[i] :
                      tasks'[i][ranked[i][n]] = tasks[i][ranked[i][n]]]_vars

\* the loop has taken all three tasks of a ranking in which the third task
\* of the list goes first on its earlier deadline at equal score, and the
\* first two, equal in score and deadline, keep their order
C22_Witness ==
    \E i \in SchedulerInstances :
        /\ pc[i] = "allocating"
        /\ ranked[i] = <<3, 1, 2>>
        /\ rank_pos[i] = 3
        /\ ScoreOf(i, 3) = ScoreOf(i, 1)
        /\ ScoreOf(i, 1) = ScoreOf(i, 2)
        /\ tasks[i][3].deadline < tasks[i][1].deadline
        /\ tasks[i][1].deadline = tasks[i][2].deadline
        /\ \E k \in DOMAIN tasks[i] : tasks[i][k].status = "scheduled"

SessionLength(i) == preferences[i].session_length_minutes

\* C23: every task of the engine, event task, topic task, revision task or
\* reschedule clone, and every revision task about to be tried, has
\* required_minutes at most session_length_minutes
C23_TasksFitOneSession ==
    \A i \in SchedulerInstances :
        /\ \A k \in DOMAIN tasks[i] :
              tasks[i][k].required_minutes <= SessionLength(i)
        /\ (pc[i] = "revising" /\ revision_queue[i] # <<>>) =>
              NextRevision(i).required_minutes <= SessionLength(i)

\* a timetable with an event task, a topic task shorter than the session
\* length, a revision task at the floor of 15 minutes and a reschedule clone
\* of a task that fills the session length
C23_Witness ==
    \E i \in SchedulerInstances :
        /\ pc[i] = "done"
        /\ \E e, t, r, c \in DOMAIN tasks[i] :
              /\ tasks[i][e].source_event_id # None
              /\ tasks[i][t].source_topic_id # None
              /\ tasks[i][t].task_type = "initial_learning"
              /\ tasks[i][t].required_minutes < SessionLength(i)
              /\ tasks[i][r].task_type = "revision"
              /\ tasks[i][r].parent_task_id = Some(tasks[i][t].task_id)
              /\ tasks[i][r].required_minutes = 15
              /\ tasks[i][r].required_minutes > tasks[i][t].required_minutes \div 2
              /\ tasks[i][c].task_id.sfx = <<"reschedule">>
              /\ tasks[i][c].required_minutes = SessionLength(i)

\* the revision tasks with the task they were made from: those of the task
\* list with their parent, and the candidate about to be tried with its source
RevisionPairs(i) ==
    {<<tasks[i][r], tasks[i][p]>> : <<r, p>> \in
        {x \in (DOMAIN tasks[i]) \X (DOMAIN tasks[i]) :
            /\ tasks[i][x[1]].task_type = "revision"
            /\ tasks[i][x[1]].parent_task_id = Some(tasks[i][x[2]].task_id)}}
      \cup (IF pc[i] = "revising" /\ revision_queue[i] # <<>>
            THEN {<<NextRevision(i), tasks[i][Head(revision_queue[i]).source]>>}
            ELSE {})

HardTopic(topic) == topic.difficulty_score > 7 \/ topic.confidence_score < 3

\* C29: for every topic with difficulty > 0.7 or confidence < 0.3, every
\* task decompose_topic makes has required_minutes at most 30
C29_HardTopicTasksAtMost30 ==
    \A i \in SchedulerInstances : \A k \in DOMAIN tasks[i] :
        \A n \in DOMAIN topics[i] :
            (/\ tasks[i][k].task_type = "initial_learning"
             /\ tasks[i][k].source_topic_id = Some(topics[i][n].id)
             /\ HardTopic(topics[i][n]))
            => tasks[i][k].required_minutes <= 30

RevisionIds(i) ==
    {tasks[i][k].task_id : k \in {k \in DOMAIN tasks[i] :
                                    tasks[i][k].task_type = "revision"}}

\* C25: a turn of the revision loop whose candidate does not pass
\* can_fit_session on its own date changes neither the task list, nor the
\* schedule, nor the capacity map, nor the warnings, and the candidate is
\* not tried again; a candidate that passes is appended as a task scheduled
\* on that date; so every revision task of generate() is scheduled and no
\* warning names a revision task
C25_RevisionDroppedSilently ==
    [][\A i \in SchedulerInstances :
          /\ (/\ pc[i] = "revising"
              /\ revision_queue[i] # <<>>
              /\ revision_queue'[i] = Tail(revision_queue[i])) =>
                LET cand == Head(revision_queue[i])
                IN  /\ warnings'[i] = warnings[i]
                    /\ \A n \in DOMAIN revision_queue'[i] :
                          revision_queue'[i][n] # cand
                    /\ IF Fits(capacity_map[i], cand.rev_date, NextRevision(i),
                               preferences[i].max_subjects_per_day)
                       THEN /\ Len(tasks'[i]) = Len(tasks[i]) + 1
                            /\ tasks'[i][Len(tasks'[i])].status = "scheduled"
                            /\ tasks'[i][Len(tasks'[i])].scheduled_date
                                  = Some(cand.rev_date)
                       ELSE /\ tasks'[i] = tasks[i]
                            /\ schedule'[i] = schedule[i]
                            /\ capacity_map'[i] = capacity_map[i]
          /\ \A k \in DOMAIN tasks'[i] :
                tasks'[i][k].task_type = "revision" => tasks'[i][k].status = "scheduled"
          /\ \A n \in DOMAIN warnings'[i] :
                Range(warnings'[i][n].affected_tasks) \cap RevisionIds(i)' = {}]_vars

\* an output with warnings in which one revision of a task is scheduled
\* and a later candidate of the same task was dropped: its id is used by
\* no task
C25_Witness ==
    \E i \in SchedulerInstances :
        /\ pc[i] = "done"
        /\ warnings[i] # <<>>
        /\ \E k \in DOMAIN tasks[i] :
              /\ tasks[i][k].task_type = "revision"
              /\ tasks[i][k].task_id.n < task_counter[i]
              /\ \A j \in DOMAIN tasks[i] :
                    tasks[i][j].task_id.n # tasks[i][k].task_id.n + 1

\* C30: in every state of generate(), a date listed in excluded_dates has
\* zero capacity and a DaySchedule without slots
C30_ExcludedDatesStayEmpty ==
    \A i \in SchedulerInstances : \A d \in availability[i].excluded_dates :
        /\ d \in DOMAIN capacity_map[i] =>
              /\ capacity_map[i][d].total_minutes = 0
              /\ capacity_map[i][d].available_minutes = 0
        /\ d \in DOMAIN schedule[i] => Slots(i, d) = <<>>

Returned(i) == pc[i] = "done"

SlotsOfTask(i, task_id) ==
    {<<d, n>> \in UNION {{d} \X DOMAIN Slots(i, d) : d \in DOMAIN schedule[i]} :
        Slots(i, d)[n].task_id = task_id}

\* the output of generate(): a schedule over the horizon, the task list,
\* the warnings and the metadata; every task is scheduled or pending, and a
\* pending task has no date and no slot
WellFormedOutput(i) ==
    /\ metadata[i] # None
    /\ metadata[i][1].total_tasks = Len(tasks[i])
    /\ metadata[i][1].scheduled_tasks = CountStatus(tasks[i], "scheduled")
    /\ DOMAIN schedule[i] = date_range(current_date[i], end_date[i])
    /\ \A k \in DOMAIN tasks[i] :
          \/ tasks[i][k].status = "scheduled"
          \/ /\ tasks[i][k].status = "pending"
             /\ tasks[i][k].scheduled_date = None
             /\ SlotsOfTask(i, tasks[i][k].task_id) = {}
             /\ \E n \in UnscheduledWarnings(i) :
                   tasks[i][k].task_id \in Range(warnings[i][n].affected_tasks)

\* C26: on every input, with no availability on any day, with every event
\* date before current_date, with far more task minutes than capacity,
\* generate() reaches its return, and what it returns is a well-formed
\* output in which the tasks that could not be placed are pending
C26_GenerateReturns ==
    /\ <>(\A i \in SchedulerInstances : Returned(i))
    /\ [](\A i \in SchedulerInstances : Returned(i) => WellFormedOutput(i))

\* generate() has returned on an input with no study time on any day and
\* the 10-hour exam of 10 days ago as only event: an empty schedule, every
\* task pending and named by a warning
C26_Witness ==
    \E i \in SchedulerInstances :
        /\ Returned(i)
        /\ availability[i].weekday_hours = 0
        /\ availability[i].weekend_hours = 0
        /\ Len(events[i]) = 1
        /\ events[i][1].target_date = current_date[i] - 10
        /\ end_date[i] < current_date[i]
        /\ DOMAIN schedule[i] = {}
        /\ Len(tasks[i]) >= 10
        /\ \A k \in DOMAIN tasks[i] : tasks[i][k].status = "pending"
        /\ warnings[i] # <<>>

\* the date strings of January 2024 as the six accepted formats write them
WrittenDates ==
    UNION {{ [sep |-> "-", fields |-> <<2024, 1, d>>],
             [sep |-> "/", fields |-> <<2024, 1, d>>],
             [sep |-> "-", fields |-> <<d, 1, 2024>>],
             [sep |-> "/", fields |-> <<d, 1, 2024>>],
             [sep |-> "-", fields |-> <<1, d, 2024>>],
             [sep |-> "/", fields |-> <<1, d, 2024>>] } : d \in 1..31}

\* the arguments name a negative effort, a session below 15 minutes, a
\* negative break, or an event date that no format writes
InvalidArguments(i) ==
    \/ \E k \in DOMAIN events[i] :
          \/ events[i][k].estimated_effort_hours < 0
          \/ events[i][k].target_date \notin WrittenDates
    \/ preferences[i].session_length_minutes < 15
    \/ preferences[i].break_length_minutes < 0

NothingProduced(i) ==
    /\ tasks[i] = <<>>
    /\ warnings[i] = <<>>
    /\ schedule[i] = <<>>
    /\ capacity_map[i] = <<>>
    /\ metadata[i] = None
    /\ task_counter[i] = 0

\* C27: an invalid input value (negative effort hours, session length below
\* 15, negative break length, an event date that parses under no format)
\* makes the constructor raise: the step from the arguments ends in the
\* raised state with no task, schedule, capacity or warning, no step of
\* generate() follows it, and valid arguments are never refused
C27_InvalidInputRaisesAtConstruction ==
    [][\A i \in SchedulerInstances :
          /\ pc[i] = "new" =>
                /\ pc'[i] = (IF InvalidArguments(i) THEN "raised" ELSE "created")
                /\ NothingProduced(i)'
          /\ pc[i] = "raised" => UNCHANGED vars]_vars

\* the constructor has raised on the event date 2024-13-45 given with valid
\* effort and valid preferences
C27_Witness ==
    \E i \in SchedulerInstances :
        /\ pc[i] = "raised"
        /\ Len(events[i]) = 1
        /\ events[i][1].target_date = [sep |-> "-", fields |-> <<2024, 13, 45>>]
        /\ events[i][1].estimated_effort_hours = 300
        /\ preferences[i] = DefaultPreferences
        /\ NothingProduced(i)

\* everything one scheduler instance holds
InstanceState(i) ==
    <<current_date[i], events[i], availability[i], preferences[i], topics[i],
      task_counter[i], tasks[i], warnings[i], schedule[i], end_date[i],
      capacity_map[i], ranked[i], rank_pos[i], revision_queue[i], metadata[i],
      last_call[i], calls[i], pc[i]>>

\* how far generate() has come
Position(i) == <<pc[i], rank_pos[i], Len(revision_queue[i])>>

C31_SlotsInsideWindow ==
    \A i \in SchedulerInstances : \A d \in DOMAIN schedule[i] :
        \A n \in DOMAIN Slots(i, d) :
            /\ availability[i].start_time <= Slots(i, d)[n].start_time
            /\ Slots(i, d)[n].end_time <= availability[i].end_time

\* the required minutes of the task a slot was made for
SlotRequiredMinutes(i, slot) ==
    LET k == CHOOSE k \in DOMAIN tasks[i] : tasks[i][k].task_id = slot.task_id
    IN  tasks[i][k].required_minutes

\* C32: within every day the first slot starts at availability.start_time
\* and each later slot starts exactly the previous slot's required minutes
\* plus the break length after the previous slot's start, so that the slots
\* of a day do not overlap and are at least a break apart
C32_SlotsChainedByBreak ==
    \A i \in SchedulerInstances : \A d \in DOMAIN schedule[i] :
        \A n \in DOMAIN Slots(i, d) :
            IF n = 1
            THEN Slots(i, d)[n].start_time = availability[i].start_time
            ELSE /\ Slots(i, d)[n].start_time =
                      Slots(i, d)[n - 1].start_time
                        + SlotRequiredMinutes(i, Slots(i, d)[n - 1])
                        + preferences[i].break_length_minutes
                 /\ Slots(i, d)[n].start_time >=
                      Slots(i, d)[n - 1].end_time + preferences[i].break_length_minutes

\* the slot a scheduled task names: on its date, at its index, with its id
HasItsSlot(sched, task) ==
    /\ task.scheduled_date # None
    /\ task.scheduled_slot # None
    /\ task.scheduled_date[1] \in DOMAIN sched
    /\ task.scheduled_slot[1] + 1 \in DOMAIN sched[task.scheduled_date[1]].slots
    /\ sched[task.scheduled_date[1]].slots[task.scheduled_slot[1] + 1].task_id
          = task.task_id

\* C33: a second generate() on the same instance returns the total_tasks
\* and scheduled_tasks of the first, and every task it reports as scheduled
\* has its slot in the schedule it returns
C33_SecondGenerateSame ==
    [][\A i \in SchedulerInstances :
          (pc[i] = "checked" /\ pc'[i] = "done" /\ metadata[i] # None) =>
             /\ metadata'[i][1].total_tasks = metadata[i][1].total_tasks
             /\ metadata'[i][1].scheduled_tasks = metadata[i][1].scheduled_tasks
             /\ \A k \in DOMAIN tasks'[i] :
                   tasks'[i][k].status = "scheduled" =>
                      HasItsSlot(schedule'[i], tasks'[i][k])]_vars

\* round(num / den) as Python rounds: to the nearest integer, a half to the
\* even neighbour
RoundHalfEven(num, den) ==
    LET q == num \div den
        r == num % den
    IN  IF 2 * r < den THEN q
        ELSE IF 2 * r > den THEN q + 1
        ELSE IF q % 2 = 0 THEN q ELSE q + 1

\* C34: the priority of every topic task is
\* round(10 x (difficulty + (1 - confidence)) / 2) clamped to [1, 10]
C34_TopicPriorityRounded ==
    \A i \in SchedulerInstances : \A k \in DOMAIN tasks[i] :
        (tasks[i][k].source_topic_id # None
            /\ tasks[i][k].task_type = "initial_learning") =>
           tasks[i][k].priority =
              clamp(RoundHalfEven(tasks[i][k].difficulty_score
                                    + (10 - tasks[i][k].confidence_score), 2),
                    1, 10)

\* the initial-learning tasks decompose_topic made for a topic
TasksOfTopic(i, topic) ==
    {k \in DOMAIN tasks[i] : /\ tasks[i][k].source_topic_id = Some(topic.id)
                             /\ tasks[i][k].task_type = "initial_learning"}

\* C35: decompose_topic loses no study time: every topic yields between 1
\* and 10 tasks of at least 15 minutes each, whose required minutes sum to at
\* least the adjusted minutes of the topic
C35_TopicTimeKept ==
    \A i \in SchedulerInstances :
        pc[i] # "created" =>
           \A j \in DOMAIN topics[i] :
              /\ Cardinality(TasksOfTopic(i, topics[i][j])) \in 1..10
              /\ \A k \in TasksOfTopic(i, topics[i][j]) :
                    tasks[i][k].required_minutes >= 15
              /\ SumMinutes(tasks[i], TasksOfTopic(i, topics[i][j]))
                    >= AdjustedMinutes(topics[i][j])

\* can_fit_session rejects the task on date e, or e has no DayCapacity
Rejected(i, e, task) ==
    \/ e \notin DOMAIN capacity_map[i]
    \/ ~ can_fit_session(capacity_map[i][e], task.required_minutes, task.subject,
                         task.topic, preferences[i].max_subjects_per_day)

\* C36: when _allocate_task places a task on a date d up to its deadline, d
\* is the earliest date of [current_date, deadline] that accepted the session
\* at that moment; a task placed after its deadline is placed on the earliest
\* accepting date of deadline+1..deadline+3, and only after every date from
\* current_date to the deadline has rejected it
C36_EarliestFittingDate ==
    [][\A i \in SchedulerInstances :
          (pc[i] = "allocating" /\ rank_pos'[i] = rank_pos[i] + 1
              /\ tasks'[i][ranked[i][rank_pos[i] + 1]].status = "scheduled") =>
             LET task == NextRanked(i)
                 d    == tasks'[i][ranked[i][rank_pos[i] + 1]].scheduled_date[1]
             IN  /\ ~ Rejected(i, d, task)
                 /\ d >= current_date[i] \/ d > task.deadline
                 /\ d <= task.deadline + 3
                 /\ \A e \in current_date[i]..Min(d - 1, task.deadline) :
                       Rejected(i, e, task)
                 /\ \A e \in (task.deadline + 1)..(d - 1) : Rejected(i, e, task)]_vars

\* allocation has just placed a task on a date after current_date and up to
\* its deadline, and just before that a task after its deadline
C36_Witness ==
    \E i \in SchedulerInstances :
        /\ pc[i] = "allocating"
        /\ rank_pos[i] > 1
        /\ LET last == tasks[i][ranked[i][rank_pos[i]]]
               prev == tasks[i][ranked[i][rank_pos[i] - 1]]
           IN  /\ last.status = "scheduled"
               /\ last.scheduled_date[1] > current_date[i]
               /\ last.scheduled_date[1] <= last.deadline
               /\ prev.status = "scheduled"
               /\ prev.scheduled_date[1] > prev.deadline

\* the scheduled tasks a slot belongs to
TasksOfSlot(i, slot) ==
    {k \in DOMAIN tasks[i] : /\ tasks[i][k].task_id = slot.task_id
                             /\ tasks[i][k].status = "scheduled"}

\* C37: in every state of a single generate() call the scheduled tasks and
\* the slots correspond one to one: a scheduled task has exactly one slot,
\* on its scheduled_date at index scheduled_slot, with its task_id, subject
\* and topic; every slot belongs to exactly one scheduled task; a pending
\* task has no slot
C37_TasksAndSlotsCorrespond ==
    \A i \in SchedulerInstances :
        /\ \A k \in DOMAIN tasks[i] :
              IF tasks[i][k].status = "scheduled"
              THEN /\ HasItsSlot(schedule[i], tasks[i][k])
                   /\ SlotsOfTask(i, tasks[i][k].task_id) =
                         {<<tasks[i][k].scheduled_date[1],
                            tasks[i][k].scheduled_slot[1] + 1>>}
                   /\ LET slot == Slots(i, tasks[i][k].scheduled_date[1])
                                       [tasks[i][k].scheduled_slot[1] + 1]
                      IN  /\ slot.subject = tasks[i][k].subject
                          /\ slot.topic = tasks[i][k].topic
              ELSE SlotsOfTask(i, tasks[i][k].task_id) = {}
        /\ \A d \in DOMAIN schedule[i] : \A n \in DOMAIN Slots(i, d) :
              Cardinality(TasksOfSlot(i, Slots(i, d)[n])) = 1

\* generate() has returned a day holding slots of two subjects and a
\* revision session, with other tasks left pending
C37_Witness ==
    \E i \in SchedulerInstances :
        /\ pc[i] = "done"
        /\ \E d \in DOMAIN schedule[i] :
              /\ Len(Slots(i, d)) >= 2
              /\ Slots(i, d)[1].subject # Slots(i, d)[2].subject
        /\ \E d \in DOMAIN schedule[i] : \E n \in DOMAIN Slots(i, d) :
              Slots(i, d)[n].task_type = "revision"
        /\ \E k \in DOMAIN tasks[i] : tasks[i][k].status = "pending"

\* the slot list old is the beginning of the slot list new
GrownByAppending(old, new) ==
    /\ Len(old) <= Len(new)
    /\ SubSeq(new, 1, Len(old)) = old

\* the tasks whose fields differ between the two ends of a step
ChangedTasks(i) ==
    {k \in DOMAIN tasks[i] : k \notin DOMAIN tasks'[i] \/ tasks'[i][k] # tasks[i][k]}

\* C38: allocation never backtracks: in every step of generate() a task
\* already scheduled keeps its scheduled_date, its scheduled_slot and its
\* slot; the slot list of every day only grows by appending; the available
\* minutes of every day never increase; the ranked list holds each task
\* once and is walked one position per attempt, which touches the task at
\* that position only, up to its end
C38_NeverBacktracks ==
    [][\A i \in SchedulerInstances :
          /\ \A k \in DOMAIN tasks[i] :
                tasks[i][k].status = "scheduled" =>
                   /\ k \in DOMAIN tasks'[i]
                   /\ tasks'[i][k].task_id = tasks[i][k].task_id
                   /\ tasks'[i][k].status = "scheduled"
                   /\ tasks'[i][k].scheduled_date = tasks[i][k].scheduled_date
                   /\ tasks'[i][k].scheduled_slot = tasks[i][k].scheduled_slot
                   /\ HasItsSlot(schedule'[i], tasks'[i][k])
                   /\ schedule'[i][tasks[i][k].scheduled_date[1]]
                         .slots[tasks[i][k].scheduled_slot[1] + 1]
                      = Slots(i, tasks[i][k].scheduled_date[1])
                           [tasks[i][k].scheduled_slot[1] + 1]
          /\ \A d \in DOMAIN schedule[i] :
                /\ d \in DOMAIN schedule'[i]
                /\ GrownByAppending(Slots(i, d), schedule'[i][d].slots)
          /\ \A d \in DOMAIN capacity_map[i] :
                /\ d \in DOMAIN capacity_map'[i]
                /\ capacity_map'[i][d].available_minutes
                      <= capacity_map[i][d].available_minutes
          /\ pc[i] = "allocating" =>
                /\ ranked'[i] = ranked[i]
                /\ \A m, n \in DOMAIN ranked[i] :
                      ranked[i][m] = ranked[i][n] => m = n
                /\ IF pc'[i] = "allocating"
                   THEN /\ rank_pos'[i] = rank_pos[i] + 1
                        /\ rank_pos'[i] <= Len(ranked[i])
                        /\ ChangedTasks(i) \subseteq {ranked[i][rank_pos'[i]]}
                   ELSE /\ rank_pos'[i] = rank_pos[i]
                        /\ rank_pos[i] = Len(ranked[i])
                        /\ ChangedTasks(i) = {}]_vars

\* the walk has passed a task it placed and a task it left pending, and a
\* day holds two slots
C38_Witness ==
    \E i \in SchedulerInstances :
        /\ pc[i] = "allocating"
        /\ rank_pos[i] >= 3
        /\ \E m, n \in 1..rank_pos[i] :
              /\ tasks[i][ranked[i][m]].status = "scheduled"
              /\ tasks[i][ranked[i][n]].status = "pending"
        /\ \E d \in DOMAIN schedule[i] : Len(Slots(i, d)) >= 2

\* the study minutes placed on a day: the required minutes of its slots
PlacedMinutes(i, d) ==
    SumSeq([n \in DOMAIN Slots(i, d) |-> SlotRequiredMinutes(i, Slots(i, d)[n])])

\* C39: a day that holds slots has capacity_used = used / total, with used
\* the study minutes placed on it and total the total minutes of the day;
\* a day without slots has capacity_used 0
C39_CapacityUsedIsPlacedOverTotal ==
    \A i \in SchedulerInstances : \A d \in DOMAIN schedule[i] :
        IF Slots(i, d) = <<>>
        THEN schedule[i][d].capacity_used.num = 0
        ELSE schedule[i][d].capacity_used.num * capacity_map[i][d].total_minutes
                = PlacedMinutes(i, d) * schedule[i][d].capacity_used.den

====
